---- MODULE Spec2Model ----
(***************************************************************************)
(* WorkerRender: the offline-first cache and navigation coordination       *)
(* engine.                                                                 *)
(*                                                                         *)
(*   Spec     the service worker's render strategy (renderWithCache,       *)
(*            fetchAndCache, revalidateInBackground) over the IndexedDB    *)
(*            route store;                                                 *)
(*   SpecNav  the client's NavigationController;                           *)
(*   SpecMw   the middleware chain executors (runMiddleware, compose);     *)
(*   SpecRace one call of runLoaderWithTimeout, in milliseconds;           *)
(*   SpecCache the cache utilities of cache.ts called one after another;   *)
(*   SpecNotify one call of notifyClientsOfUpdate;                         *)
(*   SpecDB   the connection and transaction of each cache utility call;   *)
(*   SpecHistory the controller's history ring;                            *)
(*   SpecETag one call of generateETag;                                    *)
(*   SpecPurge the render strategy with clearAllCache called at any time.  *)
(*                                                                         *)
(* The parts share no state; each specification leaves the other parts'    *)
(* variables unchanged.                                                    *)
(***************************************************************************)
EXTENDS Integers, Sequences, FiniteSets, TLC

VARIABLES
    \* ---- service worker ----
    store,                 \* IndexedDB object store 'routes': url -> CachedRoute
    pendingRevalidations,  \* Map<string, Promise<void>>: cacheKey -> owning refresh
    now,                   \* Date.now()
    subtle,                \* crypto.subtle is available
    reqKey,                \* per renderWithCache call: cacheKey
    reqPc,                 \* per call: where the call is suspended
    reqData,               \* per call: the serialized payload it holds
    reqResp,               \* per call: the Response returned (or the error thrown)
    rv,                    \* per call: the background refresh it spawned
    loaderCalls,           \* cacheKey -> number of load operations started
    notifyLog,             \* per refresh: its calls of notifyClientsOfUpdate(url, data)
    \* ---- NavigationController ----
    pending,               \* Map<string, Promise<NavigationResult>>: url -> operation
    activeRequests,        \* Map<string, AbortController>: url -> operation
    navigationHistory,     \* string[]
    nav,                   \* per call of navigate / prefetch: the operation it made
    fetches,               \* number of fetch() calls made
    joined,                \* the latest navigate call that was handed a pending promise
    \* ---- middleware chain ----
    executor,              \* which executor runs the chain: runMiddleware or compose
    index,                 \* the executor's `index`
    stack,                 \* what was invoked and has not returned: interceptors, loader
    calls,                 \* per interceptor: its calls of its continuation
    trace,                 \* the invocations of interceptors and of the loader, in order
    mwResult,              \* idle, running, returned or threw
    adapted,               \* the interceptors that are adaptHonoMiddleware wrappers
    hono,                  \* per wrapper: nextCalled, __status, and whether the
                           \* Hono middleware it wraps has returned
    \* ---- runLoaderWithTimeout ----
    raceClock,             \* milliseconds since runLoaderWithTimeout was called
    raceLoader,            \* the promise of loader()
    raceTimer,             \* the timer of timeoutPromise: idle, armed or fired
    raceResult,            \* the promise of Promise.race
    \* ---- cache.ts called directly ----
    tx,                    \* the readwrite transaction in progress, if any
    lastTx,                \* the call whose transaction completed last
    \* ---- notifyClientsOfUpdate ----
    clients,               \* what self.clients.matchAll resolved with, in order
    notice,                \* the arguments url and data of the call
    cursor,                \* the position of the for loop in clients
    inbox,                 \* per client: the messages its page has received
    notifyPc,              \* idle, loop, done (returned) or caught (the catch ran)
    page,                  \* per client: what its page's message listener
                           \* did with each message of the inbox, in order
    \* ---- withDB ----
    dbCalls,               \* per call of a cache utility: its promise, its
                           \* connection and its transaction
    \* ---- navigation history ----
    started,               \* every normalized URL a navigation was started
                           \* for, in start order (nothing is ever dropped)
    starts,                \* navigate calls made since the initial state
    \* ---- generateETag ----
    etagCall               \* the last call: its argument, whether
                           \* crypto.subtle was usable, and what it returned

swVars == <<store, pendingRevalidations, now, subtle, reqKey, reqPc,
            reqData, reqResp, rv, loaderCalls, notifyLog>>

navVars == <<pending, activeRequests, navigationHistory, nav, fetches, joined>>

mwVars == <<executor, index, stack, calls, trace, mwResult, adapted, hono>>

raceVars == <<raceClock, raceLoader, raceTimer, raceResult>>

cacheVars == <<tx, lastTx>>

notifyVars == <<clients, notice, cursor, inbox, notifyPc, page>>

dbVars == <<dbCalls>>

historyVars == <<started, starts>>

etagVars == <<etagCall>>

vars == <<swVars, navVars, mwVars, raceVars, cacheVars, notifyVars, dbVars,
          historyVars, etagVars>>

\* What each part leaves alone.
notSW == <<historyVars, etagVars, dbVars, navVars, mwVars, raceVars, cacheVars, notifyVars>>
notNav == <<historyVars, etagVars, dbVars, swVars, mwVars, raceVars, cacheVars, notifyVars>>
notMw == <<historyVars, etagVars, dbVars, swVars, navVars, raceVars, cacheVars, notifyVars>>
notRace == <<historyVars, etagVars, dbVars, swVars, navVars, mwVars, cacheVars, notifyVars>>
notCache == <<pendingRevalidations, subtle, reqKey, reqPc, reqData, reqResp, rv,
              loaderCalls, notifyLog, navVars, mwVars, raceVars, notifyVars,
              dbVars, historyVars, etagVars>>
notNotify == <<swVars, navVars, mwVars, raceVars, cacheVars, dbVars, historyVars, etagVars>>
notDB == <<swVars, navVars, mwVars, raceVars, cacheVars, notifyVars, historyVars, etagVars>>
notHistory == <<swVars, pending, activeRequests, nav, fetches, joined, mwVars,
                raceVars, cacheVars, notifyVars, dbVars, etagVars>>
notETag == <<swVars, navVars, mwVars, raceVars, cacheVars, notifyVars, dbVars,
             historyVars>>

----------------------------------------------------------------------------
(* Bounds *)

MaxReq == 2
MaxNow == 1
MaxOps == 2
MaxNextCalls == 2
MaxClock == 2
MaxAge == 1
MaxClients == 3
MaxCalls == 2
MaxStarts == 2
MaxShort == 2
MaxOver == 2

Reqs == 1..MaxReq

Keys == {"/a", "/b"}

\* Serialized payloads (JSON.stringify of the loader's data), as char codes:
\* "Aa" and "BB" in their JSON quotes.
PayloadAa == <<34, 65, 97, 34>>
PayloadBB == <<34, 66, 66, 34>>
Payloads == {PayloadAa, PayloadBB}

NoData == <<>>

----------------------------------------------------------------------------
(* version.ts *)

APP_VERSION == "1.0.0"

\* A version of an earlier deployment, left in the store by it.
OldVersion == "0.9.0"

getAppVersion == APP_VERSION

isVersionCompatibleAlways(cachedVersion) == TRUE

isVersionCompatible(cachedVersion) == cachedVersion = getAppVersion

----------------------------------------------------------------------------
(* generateETag *)

Limb == 65536

\* A 32-bit integer is kept as the two 16-bit limbs <<hi, lo>> of its
\* unsigned (two's complement) value.

\* hash << 5.
Shl5(h) ==
    LET lo == h[2] * 32 IN << (h[1] * 32 + (lo \div Limb)) % Limb, lo % Limb >>

\* a - b, wrapped.
Sub32(a, b) ==
    LET lo == a[2] - b[2]
        borrow == IF lo < 0 THEN 1 ELSE 0
    IN  << (a[1] - b[1] - borrow + Limb) % Limb, (lo + Limb) % Limb >>

\* a + c for a char code c, wrapped.
Add32(a, c) ==
    LET lo == a[2] + c IN << (a[1] + (lo \div Limb)) % Limb, lo % Limb >>

\* A round that leaves out the subtraction: (hash << 5) + c.
HashStepNoSubtract(h, c) == Add32(Shl5(h), c)

\* Lines 288-289, one round of the fallback hash:
\* hash = ((hash << 5) - hash) + c; hash = hash & hash.
HashStep(h, c) == Add32(Sub32(Shl5(h), h), c)

RECURSIVE HashFrom(_, _, _, _)
\* Lines 287-290: the rounds of the loop for the positions i..n in order,
\* from the hash h.  The range is halved to keep the evaluation shallow:
\* the rounds of the first half, whose result the test h # << >> makes the
\* evaluator compute, then those of the second.
HashFrom(data, i, n, h) ==
    IF i > n THEN h
    ELSE IF i = n THEN HashStep(h, data[i])
    ELSE LET mid == (i + n) \div 2
             first == HashFrom(data, i, mid, h)
         IN  IF first # << >> THEN HashFrom(data, mid + 1, n, first) ELSE h

HashPrefixLen == 1000

Min(a, b) == IF a < b THEN a ELSE b

\* Math.abs of the signed 32-bit reading of <<hi, lo>>, again as two limbs
\* (abs(-2^31) = 2^31 is <<32768, 0>>).
Abs32(h) ==
    IF h[1] < 32768 THEN h
    ELSE IF h[2] = 0 THEN << Limb - h[1], 0 >>
         ELSE << Limb - 1 - h[1], Limb - h[2] >>

FallbackETag(data) ==
    [kind |-> "fallback",
     hash |-> Abs32(HashFrom(data, 1, Min(Len(data), HashPrefixLen), <<0, 0>>)),
     length |-> Len(data),
     digest |-> NoData]

\* SHA-256 of the payload, first 16 hex digits: taken as collision free.
SubtleETag(data) ==
    [kind |-> "sha256", hash |-> <<0, 0>>, length |-> 0, digest |-> data]

RECURSIVE Digits(_, _)
\* The digits of n in the given base, most significant first.
Digits(n, base) ==
    IF n < base THEN << n >> ELSE Append(Digits(n \div base, base), n % base)

\* Line 291, Math.abs(hash).toString(36): the base 36 digits (0..35 for
\* 0-9a-z) of the value of the limbs, by long division of hi * 65536 + lo.
toString36(h) ==
    LET q1 == h[1] \div 36
        r1 == h[1] % 36
        mid == r1 * Limb + h[2]
        q0 == mid \div 36
        d0 == mid % 36
        \* the quotient is q1 * 65536 + q0, with q0 < 36 * 65536, below 2^27
        qhi == q1 + (q0 \div Limb)
        qlo == q0 % Limb
    IN  IF h[1] = 0 THEN Digits(h[2], 36)
        ELSE Append(Digits(qhi * Limb + qlo, 36), d0)

\* Line 291: the text `"${hash36}-${data.length}"` of a fallback ETag.
ETagText(etag) ==
    << "quote", toString36(etag.hash), "-", Digits(etag.length, 10), "quote" >>

generateETag(data, hasSubtle) ==
    IF hasSubtle THEN SubtleETag(data) ELSE FallbackETag(data)

NoETag == [kind |-> "none", hash |-> <<0, 0>>, length |-> 0, digest |-> NoData]

----------------------------------------------------------------------------
(* cache.ts: the rows of the object store *)

CachedRoute(url, data, version, timestamp, etag) ==
    [url |-> url, data |-> data, version |-> version,
     timestamp |-> timestamp, etag |-> etag]

\* store.add(cached) in place of put: a row already under the key stays.
PutIfAbsent(s, row) ==
    [k \in (DOMAIN s) \cup {row.url} |-> IF k \in DOMAIN s THEN s[k] ELSE row]

\* store.put(cached): one row per key path 'url'.
Put(s, row) == [k \in (DOMAIN s) \cup {row.url} |-> IF k = row.url THEN row ELSE s[k]]

\* The rows an earlier run of this code can have left under a key.
SeedRows(k, hasSubtle) ==
    { CachedRoute(k, d, v, 0, generateETag(d, hasSubtle)) :
        d \in {PayloadAa}, v \in {APP_VERSION, OldVersion} }

WellKeyed(s) == \A k \in DOMAIN s : s[k].url = k

SeedStores(hasSubtle) ==
    { s \in UNION { [K -> UNION {SeedRows(k, hasSubtle) : k \in K}] :
                      K \in SUBSET Keys } : WellKeyed(s) }

----------------------------------------------------------------------------
(* renderFn and Response *)

renderFn(data) == <<"html", data>>

\* version.ts: the header fetchAndCache puts the version in.
VERSION_HEADER == "X-App-Version"

NoResp == [xcache |-> "NONE", versionHeader |-> "", version |-> "",
           etag |-> NoETag, body |-> NoData, error |-> ""]

\* new Response(html, {status: 200, headers}): x-cache, the version under
\* the header named versionHeader, and etag when there is one.
Response(xcache, versionHeader, version, etag, html) ==
    [xcache |-> xcache, versionHeader |-> versionHeader, version |-> version,
     etag |-> etag, body |-> html, error |-> ""]

Thrown(error) ==
    [xcache |-> "NONE", versionHeader |-> "", version |-> "", etag |-> NoETag,
     body |-> NoData, error |-> error]

NoRefresh == [pc |-> "none", cachedEtag |-> NoETag, fresh |-> NoData,
              outcome |-> ""]

Without(f, k) == [x \in (DOMAIN f) \ {k} |-> f[x]]

EmptyMap == [x \in {} |-> 0]

----------------------------------------------------------------------------
(* Service worker: initial state *)

\* A service worker that has just started.
InitSWIdle ==
    /\ pendingRevalidations = EmptyMap
    /\ now = 0
    /\ reqKey = [r \in Reqs |-> "/a"]
    /\ reqPc = [r \in Reqs |-> "idle"]
    /\ reqData = [r \in Reqs |-> NoData]
    /\ reqResp = [r \in Reqs |-> NoResp]
    /\ rv = [r \in Reqs |-> NoRefresh]
    /\ loaderCalls = [k \in Keys |-> 0]
    /\ notifyLog = [r \in Reqs |-> << >>]

InitSW ==
    /\ subtle \in BOOLEAN
    /\ store \in SeedStores(subtle)
    /\ InitSWIdle

----------------------------------------------------------------------------
(* revalidateInBackground, up to its first suspension *)

\* Lines 195-238: the async body runs to its first await (the offline guard
\* returns, or the load operation is started), then the promise is put in the
\* map.
spawnRefresh(r, k, cachedEtag, onLine) ==
    /\ rv' = [rv EXCEPT ![r] =
                IF onLine
                THEN [pc |-> "loading", cachedEtag |-> cachedEtag,
                      fresh |-> NoData, outcome |-> ""]
                ELSE [pc |-> "settled", cachedEtag |-> NoETag,
                      fresh |-> NoData, outcome |-> "offline"]]
    /\ loaderCalls' = IF onLine THEN [loaderCalls EXCEPT ![k] = @ + 1]
                      ELSE loaderCalls
    /\ pendingRevalidations' =
         [x \in (DOMAIN pendingRevalidations) \cup {k} |->
            IF x = k THEN r ELSE pendingRevalidations[x]]

\* revalidateInBackground without the pendingRevalidations.has(cacheKey) guard.
revalidateInBackgroundNoGuard(r, k, cachedEtag, onLine) ==
    spawnRefresh(r, k, cachedEtag, onLine)

\* Lines 189-192: a ticket for the key makes the call return at once.
revalidateInBackground(r, k, cachedEtag, onLine) ==
    IF k \in DOMAIN pendingRevalidations
    THEN UNCHANGED <<rv, loaderCalls, pendingRevalidations>>
    ELSE spawnRefresh(r, k, cachedEtag, onLine)

----------------------------------------------------------------------------
(* renderWithCache *)

\* A fetch event for a matched route: cacheKey is computed and
\* getCachedRouteData(cacheKey) is awaited.
StartRequest(r, k) ==
    /\ reqPc[r] = "idle"
    /\ \A q \in Reqs : q < r => reqPc[q] # "idle"
    /\ reqKey' = [reqKey EXCEPT ![r] = k]
    /\ reqPc' = [reqPc EXCEPT ![r] = "lookup"]
    /\ UNCHANGED <<store, pendingRevalidations, now, subtle, reqData, reqResp, rv, loaderCalls, notifyLog>>

\* getCachedRouteData rejects (request or transaction error): renderWithCache
\* rethrows.
LookupFail(r) ==
    /\ reqPc[r] = "lookup"
    /\ reqPc' = [reqPc EXCEPT ![r] = "failed"]
    /\ reqResp' = [reqResp EXCEPT ![r] = Thrown("StoreError")]
    /\ UNCHANGED <<store, pendingRevalidations, now, subtle, reqKey,
                   reqData, rv, loaderCalls, notifyLog>>

\* A HIT test that takes a row of any version.
IsHitAnyVersion(k) == k \in DOMAIN store

IsHit(k) == k \in DOMAIN store /\ isVersionCompatible(store[k].version)

\* Lines 96-118: HIT.  onLine is what navigator.onLine reads at line 198.
LookupHit(r, onLine) ==
    LET k == reqKey[r] IN
    /\ reqPc[r] = "lookup"
    /\ IsHit(k)
    /\ revalidateInBackground(r, k, store[k].etag, onLine)
    /\ reqResp' = [reqResp EXCEPT ![r] =
                     Response("HIT", "x-cache-version", store[k].version, store[k].etag,
                              renderFn(store[k].data))]
    /\ reqPc' = [reqPc EXCEPT ![r] = "done"]
    /\ UNCHANGED <<store, now, subtle, reqKey, reqData, notifyLog>>

\* Lines 120-122 and 141-148: no row, or a row of another version:
\* fetchAndCache starts the load operation.
LookupMiss(r) ==
    LET k == reqKey[r] IN
    /\ reqPc[r] = "lookup"
    /\ ~IsHit(k)
    /\ loaderCalls' = [loaderCalls EXCEPT ![k] = @ + 1]
    /\ reqPc' = [reqPc EXCEPT ![r] = "loading"]
    /\ UNCHANGED <<store, pendingRevalidations, now, subtle, reqKey,
                   reqData, reqResp, rv, notifyLog>>

----------------------------------------------------------------------------
(* fetchAndCache *)

\* The load operation resolves with d: the ETag is generated and
\* cacheRouteData is awaited.
LoaderResolve(r, d) ==
    /\ reqPc[r] = "loading"
    /\ reqData' = [reqData EXCEPT ![r] = d]
    /\ reqPc' = [reqPc EXCEPT ![r] = "writing"]
    /\ UNCHANGED <<store, pendingRevalidations, now, subtle, reqKey,
                   reqResp, rv, loaderCalls, notifyLog>>

FetchThrows(r, error) ==
    /\ reqPc' = [reqPc EXCEPT ![r] = "failed"]
    /\ reqData' = [reqData EXCEPT ![r] = NoData]
    /\ reqResp' = [reqResp EXCEPT ![r] = Thrown(error)]
    /\ UNCHANGED <<store, pendingRevalidations, now, subtle, reqKey,
                   rv, loaderCalls, notifyLog>>

LoaderReject(r) == reqPc[r] = "loading" /\ FetchThrows(r, "LoadFailure")

\* timeoutPromise wins the race.
LoaderTimeout(r) == reqPc[r] = "loading" /\ FetchThrows(r, "LoadTimeout")

\* cacheRouteData's transaction fails.
WriteFail(r) == reqPc[r] = "writing" /\ FetchThrows(r, "StoreError")

\* fetchAndCache calling cacheRouteData without the ETag.
MissEntryNoEtag(r, t) ==
    CachedRoute(reqKey[r], reqData[r], getAppVersion, t, NoETag)

\* fetchAndCache leaving a row that is already under the key in place.
MissEntryKeepsRow(r, t) ==
    IF reqKey[r] \in DOMAIN store THEN store[reqKey[r]]
    ELSE CachedRoute(reqKey[r], reqData[r], getAppVersion, t,
                     generateETag(reqData[r], subtle))

\* The entry fetchAndCache writes.
MissEntry(r, t) ==
    CachedRoute(reqKey[r], reqData[r], getAppVersion, t,
                generateETag(reqData[r], subtle))

\* cacheRouteData's transaction completes; the MISS response is returned.
\* t is what Date.now() reads at line 75: the clock has moved on to t.
WriteCommit(r, t) ==
    /\ reqPc[r] = "writing"
    /\ t >= now
    /\ now' = t
    /\ store' = Put(store, MissEntry(r, t))
    /\ reqResp' = [reqResp EXCEPT ![r] =
                     Response("MISS", VERSION_HEADER, getAppVersion,
                              generateETag(reqData[r], subtle),
                              renderFn(reqData[r]))]
    /\ reqData' = [reqData EXCEPT ![r] = NoData]
    /\ reqPc' = [reqPc EXCEPT ![r] = "done"]
    /\ UNCHANGED <<pendingRevalidations, subtle, reqKey, rv, loaderCalls,
                   notifyLog>>

----------------------------------------------------------------------------
(* revalidateInBackground: the rest of the async body *)

RefreshFrame == UNCHANGED <<pendingRevalidations, subtle, reqKey, reqPc,
                            reqData, reqResp, loaderCalls>>

Settled(r, outcome) ==
    rv' = [rv EXCEPT ![r] = [pc |-> "settled", cachedEtag |-> NoETag,
                             fresh |-> NoData, outcome |-> outcome]]

\* The comparison of line 218 lost: every refresh counts as a change.
etagChangedAlways(freshEtag, cachedEtag) == TRUE

\* Line 218.
etagChanged(freshEtag, cachedEtag) == freshEtag # cachedEtag

\* Lines 206-227: the load operation resolves with d.  A changed ETag starts
\* cacheRouteData; an unchanged one ends the body.
RefreshLoaderResolve(r, d) ==
    /\ rv[r].pc = "loading"
    /\ IF etagChanged(generateETag(d, subtle), rv[r].cachedEtag)
       THEN rv' = [rv EXCEPT ![r].pc = "writing", ![r].fresh = d]
       ELSE Settled(r, "unchanged")
    /\ UNCHANGED <<store, now, notifyLog>>
    /\ RefreshFrame

\* The refresh without its try / catch: the rejection reaches the request.
RefreshLoaderRejectPropagates(r) ==
    /\ rv[r].pc = "loading"
    /\ Settled(r, "loadfail")
    /\ reqPc' = [reqPc EXCEPT ![r] = "failed"]
    /\ reqResp' = [reqResp EXCEPT ![r] = Thrown("LoadFailure")]
    /\ UNCHANGED <<store, now, notifyLog, pendingRevalidations, subtle, reqKey,
                   reqData, loaderCalls>>

\* A failed refresh that evicts the entry it could not refresh.
RefreshLoaderRejectEvicts(r) ==
    /\ rv[r].pc = "loading"
    /\ Settled(r, "loadfail")
    /\ store' = Without(store, reqKey[r])
    /\ UNCHANGED <<now, notifyLog>>
    /\ RefreshFrame

\* Lines 228-231: the load operation rejects; caught and logged.
RefreshLoaderReject(r) ==
    /\ rv[r].pc = "loading"
    /\ Settled(r, "loadfail")
    /\ UNCHANGED <<store, now, notifyLog>>
    /\ RefreshFrame

\* timeoutPromise wins the race; caught and logged.
RefreshTimeout(r) ==
    /\ rv[r].pc = "loading"
    /\ Settled(r, "timeout")
    /\ UNCHANGED <<store, now, notifyLog>>
    /\ RefreshFrame

\* The refresh writing the ETag it was given instead of the fresh one.
FreshEntryKeepsEtag(r, t) ==
    CachedRoute(reqKey[r], rv[r].fresh, getAppVersion, t, rv[r].cachedEtag)

\* The refresh writing its row under the version of an earlier deployment.
FreshEntryOldVersion(r, t) ==
    CachedRoute(reqKey[r], rv[r].fresh, OldVersion, t,
                generateETag(rv[r].fresh, subtle))

\* The entry the refresh writes.
FreshEntry(r, t) ==
    CachedRoute(reqKey[r], rv[r].fresh, getAppVersion, t,
                generateETag(rv[r].fresh, subtle))

\* Lines 220-224: cacheRouteData's transaction completes, then
\* notifyClientsOfUpdate(cacheKey, freshData) is called.
RefreshWriteCommit(r, t) ==
    /\ rv[r].pc = "writing"
    /\ t >= now
    /\ now' = t
    /\ store' = Put(store, FreshEntry(r, t))
    /\ notifyLog' = [notifyLog EXCEPT ![r] =
                        Append(@, [url |-> reqKey[r], data |-> rv[r].fresh])]
    /\ rv' = [rv EXCEPT ![r].pc = "notifying"]
    /\ RefreshFrame

\* cacheRouteData rejects; caught and logged.
RefreshWriteFail(r) ==
    /\ rv[r].pc = "writing"
    /\ Settled(r, "storefail")
    /\ UNCHANGED <<store, now, notifyLog>>
    /\ RefreshFrame

\* notifyClientsOfUpdate returns: it has posted its messages, or caught the
\* failure of clients.matchAll / postMessage itself (lines 262-264).
RefreshNotifyDone(r, delivered) ==
    /\ rv[r].pc = "notifying"
    /\ Settled(r, IF delivered THEN "updated" ELSE "notifyfail")
    /\ UNCHANGED <<store, now, notifyLog>>
    /\ RefreshFrame

\* The refresh without its promise.finally: the ticket stays.
RefreshFinallyKeepsTicket(r) ==
    /\ rv[r].pc = "settled"
    /\ rv' = [rv EXCEPT ![r] = [pc |-> "cleaned", cachedEtag |-> NoETag,
                                fresh |-> NoData, outcome |-> ""]]
    /\ UNCHANGED <<store, pendingRevalidations, now, subtle, reqKey, reqPc,
                   reqData, reqResp, loaderCalls, notifyLog>>

\* Lines 236-238: promise.finally.
RefreshFinally(r) ==
    /\ rv[r].pc = "settled"
    /\ pendingRevalidations' = Without(pendingRevalidations, reqKey[r])
    /\ rv' = [rv EXCEPT ![r] = [pc |-> "cleaned", cachedEtag |-> NoETag,
                                fresh |-> NoData, outcome |-> ""]]
    /\ UNCHANGED <<store, now, subtle, reqKey, reqPc, reqData, reqResp, loaderCalls, notifyLog>>

----------------------------------------------------------------------------

NextSW ==
    \/ \E r \in Reqs, k \in Keys : StartRequest(r, k) /\ UNCHANGED notSW
    \/ \E r \in Reqs : LookupFail(r) /\ UNCHANGED notSW
    \/ \E r \in Reqs, onLine \in BOOLEAN : LookupHit(r, onLine) /\ UNCHANGED notSW
    \/ \E r \in Reqs : LookupMiss(r) /\ UNCHANGED notSW
    \/ \E r \in Reqs, d \in Payloads : LoaderResolve(r, d) /\ UNCHANGED notSW
    \/ \E r \in Reqs : LoaderReject(r) /\ UNCHANGED notSW
    \/ \E r \in Reqs : LoaderTimeout(r) /\ UNCHANGED notSW
    \/ \E r \in Reqs : WriteFail(r) /\ UNCHANGED notSW
    \/ \E r \in Reqs, t \in 0..MaxNow : WriteCommit(r, t) /\ UNCHANGED notSW
    \/ \E r \in Reqs, d \in Payloads : RefreshLoaderResolve(r, d) /\ UNCHANGED notSW
    \/ \E r \in Reqs : RefreshLoaderReject(r) /\ UNCHANGED notSW
    \/ \E r \in Reqs : RefreshTimeout(r) /\ UNCHANGED notSW
    \/ \E r \in Reqs, t \in 0..MaxNow : RefreshWriteCommit(r, t) /\ UNCHANGED notSW
    \/ \E r \in Reqs : RefreshWriteFail(r) /\ UNCHANGED notSW
    \/ \E r \in Reqs, delivered \in BOOLEAN : RefreshNotifyDone(r, delivered) /\ UNCHANGED notSW
    \/ \E r \in Reqs : RefreshFinally(r) /\ UNCHANGED notSW

----------------------------------------------------------------------------
(* NavigationController *)

Ops == 1..MaxOps

\* The URLs the page passes to navigate / prefetch / cancel, already resolved
\* against window.location.origin: a path and a fragment.
Url(path, hash) == [path |-> path, hash |-> hash]

RawUrls == {Url("/a", ""), Url("/a", "#x"), Url("/b", "")}

\* normalizeUrl that leaves the fragment in.
normalizeUrlKeepsHash(url) == url

\* Lines 342-351: parsed.hash = ''; return parsed.href.
normalizeUrl(url) == Url(url.path, "")

maxHistorySize == 50

\* addToHistory that trims from the newest end.
addToHistoryKeepsOldest(history, url) ==
    LET h == Append(history, url) IN
    IF Len(h) > maxHistorySize THEN SubSeq(h, 1, maxHistorySize) ELSE h

\* Lines 356-363: push, then slice(-maxHistorySize).
addToHistory(history, url) ==
    LET h == Append(history, url) IN
    IF Len(h) > maxHistorySize
    THEN SubSeq(h, Len(h) - maxHistorySize + 1, Len(h))
    ELSE h

\* One call of navigate / prefetch that made an operation: its fetch, its
\* AbortSignal, its timer and the settlement of its promise.
NoOp == [kind |-> "none", url |-> Url("", ""), fetch |-> "none",
         aborted |-> FALSE, timer |-> FALSE, result |-> "none"]

\* A navigate call that returned at line 149: the URL and options.replace it
\* was called with and the operation whose promise it returned.
NoJoin == [url |-> Url("", ""), op |-> 0, replace |-> FALSE]

InitNavIdle ==
    /\ pending = EmptyMap
    /\ activeRequests = EmptyMap
    /\ nav = [i \in Ops |-> NoOp]
    /\ fetches = 0
    /\ joined = NoJoin

InitNav ==
    /\ InitNavIdle
    /\ navigationHistory = << >>

\* The slot of the next call.
Free(i) == nav[i].kind = "none" /\ \A j \in Ops : j < i => nav[j].kind # "none"

With(f, k, v) == [x \in (DOMAIN f) \cup {k} |-> IF x = k THEN v ELSE f[x]]

\* controller.abort() on every operation in cs.
Aborted(ops, cs) ==
    [i \in Ops |-> IF i \in cs THEN [ops[i] EXCEPT !.aborted = TRUE] ELSE ops[i]]

Range(f) == {f[x] : x \in DOMAIN f}

\* Lines 147-150: the pending promise of the normalized URL is returned.
NavigateJoin(url, replace) ==
    LET n == normalizeUrl(url) IN
    /\ n \in DOMAIN pending
    /\ joined' = [url |-> url, op |-> pending[n], replace |-> replace]
    /\ UNCHANGED <<pending, activeRequests, navigationHistory, nav, fetches>>

\* Lines 152-177: replace cancels all; performNavigation arms its timer and
\* calls fetch; the promise and the controller are tracked; the URL is added
\* to the history.
startNavigation(i, url, replace) ==
    LET n  == normalizeUrl(url)
        cs == IF replace THEN Range(activeRequests) ELSE {}
        p0 == IF replace THEN EmptyMap ELSE pending
        a0 == IF replace THEN EmptyMap ELSE activeRequests
    IN
    /\ Free(i)
    /\ nav' = [Aborted(nav, cs) EXCEPT ![i] =
                 [NoOp EXCEPT !.kind = "nav", !.url = n, !.fetch = "pending",
                              !.timer = TRUE, !.result = "pending"]]
    /\ fetches' = fetches + 1
    /\ pending' = With(p0, n, i)
    /\ activeRequests' = With(a0, n, i)
    /\ navigationHistory' = addToHistory(navigationHistory, n)
    /\ UNCHANGED joined

\* Lines 143-178, past the check of lines 147-150.
NavigateStart(i, url, replace) ==
    /\ normalizeUrl(url) \notin DOMAIN pending
    /\ startNavigation(i, url, replace)

\* Lines 247-281: prefetch of a URL that has no pending entry (one that has
\* returns at once).
Prefetch(i, url) ==
    LET n == normalizeUrl(url) IN
    /\ Free(i)
    /\ n \notin DOMAIN pending
    /\ nav' = [nav EXCEPT ![i] =
                 [NoOp EXCEPT !.kind = "prefetch", !.url = n, !.fetch = "pending",
                              !.result = "pending"]]
    /\ fetches' = fetches + 1
    /\ pending' = With(pending, n, i)
    /\ UNCHANGED <<activeRequests, navigationHistory, joined>>

\* Lines 286-296.
Cancel(url) ==
    LET n == normalizeUrl(url) IN
    /\ n \in DOMAIN activeRequests
    /\ nav' = Aborted(nav, {activeRequests[n]})
    /\ activeRequests' = Without(activeRequests, n)
    /\ pending' = Without(pending, n)
    /\ UNCHANGED <<navigationHistory, fetches, joined>>

\* Lines 301-309.
CancelAll ==
    /\ pending # EmptyMap
    /\ nav' = Aborted(nav, Range(activeRequests))
    /\ activeRequests' = EmptyMap
    /\ pending' = EmptyMap
    /\ UNCHANGED <<navigationHistory, fetches, joined>>

\* What fetch and response.text() reject with, and the Error thrown at line
\* 207: all of them instances of Error.
Errors == {"AbortError", "TypeError", "Error"}

\* A catch that passes the AbortError on to the caller.
CaughtRethrowsAbort(error) ==
    CASE error = "AbortError" -> "rejected"
      [] error = "TypeError" -> "network-error"
      [] error = "Error" -> "http-error"
      [] OTHER -> "rejected"

\* Lines 222-239: an Error becomes the result {ok: false, error}, named here
\* after its error; anything else is thrown on and rejects the promise.
Caught(error) ==
    CASE error = "AbortError" -> "aborted"
      [] error = "TypeError" -> "network-error"
      [] error = "Error" -> "http-error"
      [] OTHER -> "rejected"

\* performNavigation returns `result` and the finally of lines 165-168 runs.
NavSettle(i, fetch, result) ==
    /\ nav' = [nav EXCEPT ![i].fetch = fetch, ![i].result = result]
    /\ pending' = Without(pending, nav[i].url)
    /\ activeRequests' = Without(activeRequests, nav[i].url)
    /\ UNCHANGED <<navigationHistory, fetches, joined>>

Live(i) == nav[i].kind = "nav" /\ nav[i].result = "pending" /\ ~nav[i].aborted

\* Lines 196-204: the response arrives; clearTimeout.
NavHeaders(i, ok) ==
    /\ Live(i) /\ nav[i].fetch = "pending"
    /\ IF ok
       THEN /\ nav' = [nav EXCEPT ![i].fetch = "headers", ![i].timer = FALSE]
            /\ UNCHANGED <<pending, activeRequests>>
       ELSE /\ nav' = [nav EXCEPT ![i].fetch = "done", ![i].timer = FALSE,
                                  ![i].result = Caught("Error")]
            /\ pending' = Without(pending, nav[i].url)
            /\ activeRequests' = Without(activeRequests, nav[i].url)
    /\ UNCHANGED <<navigationHistory, fetches, joined>>

\* Line 210: response.text() resolves.
NavBody(i) ==
    /\ Live(i) /\ nav[i].fetch = "headers"
    /\ NavSettle(i, "done", "ok")

\* fetch or response.text() rejects with a network error.
NavNetworkError(i) ==
    /\ Live(i) /\ nav[i].fetch \in {"pending", "headers"}
    /\ NavSettle(i, "done", Caught("TypeError"))

\* The aborted fetch, or response.text(), rejects with an AbortError.
NavAbortSettles(i) ==
    /\ nav[i].kind = "nav" /\ nav[i].result = "pending" /\ nav[i].aborted
    /\ NavSettle(i, "done", Caught("AbortError"))

\* Lines 189-193: the timer fires.
NavTimeout(i) ==
    /\ nav[i].kind = "nav" /\ nav[i].timer
    /\ LET cs == IF ~nav[i].aborted /\ nav[i].url \in DOMAIN activeRequests
                 THEN {activeRequests[nav[i].url]} ELSE {}
       IN nav' = [Aborted(nav, cs) EXCEPT ![i].timer = FALSE]
    /\ UNCHANGED <<pending, activeRequests, navigationHistory, fetches, joined>>

\* Lines 262-278: the prefetch settles; its finally arms the eviction timer.
PrefetchSettles(i, ok) ==
    /\ nav[i].kind = "prefetch" /\ nav[i].result = "pending"
    /\ nav' = [nav EXCEPT ![i].fetch = "done", ![i].timer = TRUE,
                          ![i].result = IF ok THEN "ok" ELSE "network-error"]
    /\ UNCHANGED <<pending, activeRequests, navigationHistory, fetches, joined>>

\* Lines 273-277: the eviction timer fires.
PrefetchEvict(i) ==
    /\ nav[i].kind = "prefetch" /\ nav[i].timer
    /\ nav' = [nav EXCEPT ![i].timer = FALSE]
    /\ pending' = IF nav[i].url \in DOMAIN pending /\ pending[nav[i].url] = i
                  THEN Without(pending, nav[i].url) ELSE pending
    /\ UNCHANGED <<activeRequests, navigationHistory, fetches, joined>>

NextNav ==
    \/ \E url \in RawUrls, replace \in BOOLEAN :
         NavigateJoin(url, replace) /\ UNCHANGED notNav
    \/ \E i \in Ops, url \in RawUrls, replace \in BOOLEAN : NavigateStart(i, url, replace) /\ UNCHANGED notNav
    \/ \E i \in Ops, url \in RawUrls : Prefetch(i, url) /\ UNCHANGED notNav
    \/ \E url \in RawUrls : Cancel(url) /\ UNCHANGED notNav
    \/ CancelAll /\ UNCHANGED notNav
    \/ \E i \in Ops, ok \in BOOLEAN : NavHeaders(i, ok) /\ UNCHANGED notNav
    \/ \E i \in Ops : NavBody(i) /\ UNCHANGED notNav
    \/ \E i \in Ops : NavNetworkError(i) /\ UNCHANGED notNav
    \/ \E i \in Ops : NavAbortSettles(i) /\ UNCHANGED notNav
    \/ \E i \in Ops : NavTimeout(i) /\ UNCHANGED notNav
    \/ \E i \in Ops, ok \in BOOLEAN : PrefetchSettles(i, ok) /\ UNCHANGED notNav
    \/ \E i \in Ops : PrefetchEvict(i) /\ UNCHANGED notNav

----------------------------------------------------------------------------
(* Middleware chain executors *)

\* route.middleware = [A, B, C]; route.loader = L.
middlewares == <<"A", "B", "C">>

handler == "L"

\* The position of an interceptor in the list, from 0.
PosOf(m) == CHOOSE i \in 0..(Len(middlewares) - 1) : middlewares[i + 1] = m

NoCalls == [m \in {"A", "B", "C"} |-> 0]

\* What crypto.randomUUID() can return.
RequestIds == {"id1", "id2"}

\* Lines 102-103: a wrapper's context and flag before its middleware runs.
\* requestId is the entry 'requestId' of the context's variables ("" while
\* the Map has none); got is what the middleware's c.get('requestId')
\* returned.
NoHono == [nextCalled |-> FALSE, status |-> FALSE, returned |-> FALSE,
           requestId |-> "", got |-> "unread"]

InitMw ==
    /\ executor = "none"
    /\ index = 0
    /\ stack = << >>
    /\ calls = NoCalls
    /\ trace = << >>
    /\ mwResult = "idle"
    /\ adapted = {}
    /\ hono = [m \in DOMAIN NoCalls |-> NoHono]

Top == stack[Len(stack)]

\* The interceptor on top of the stack is running and calls its continuation.
CanCall ==
    /\ mwResult = "running"
    /\ stack # << >>
    /\ Top # handler
    /\ Top \notin adapted
    /\ calls[Top] < MaxNextCalls

\* runMiddleware's next(), lines 167-174: past the end the handler is
\* invoked; otherwise middlewares[index++] is.
next ==
    IF index >= Len(middlewares)
    THEN /\ stack' = Append(stack, handler)
         /\ trace' = Append(trace, handler)
         /\ UNCHANGED index
    ELSE /\ index' = index + 1
         /\ stack' = Append(stack, middlewares[index + 1])
         /\ trace' = Append(trace, middlewares[index + 1])

\* Lines 160-177: index = 0; return next().  H are the interceptors of the
\* route that were made by useHonoMiddleware.
RunMiddlewareStart(H) ==
    /\ mwResult = "idle"
    /\ executor' = "runMiddleware"
    /\ mwResult' = "running"
    /\ adapted' = H
    /\ next
    /\ UNCHANGED <<calls, hono>>

\* An interceptor run by runMiddleware calls next().
RunMiddlewareNext ==
    /\ executor = "runMiddleware"
    /\ CanCall
    /\ calls' = [calls EXCEPT ![Top] = @ + 1]
    /\ next
    /\ UNCHANGED <<executor, mwResult, adapted, hono>>

\* compose's dispatch(i), lines 138-151, for an i > index: index = i; past the
\* end the outer next (the loader) is invoked; otherwise middlewares[i] is.
dispatch(i) ==
    /\ index' = i
    /\ IF i >= Len(middlewares)
       THEN /\ stack' = Append(stack, handler)
            /\ trace' = Append(trace, handler)
       ELSE /\ stack' = Append(stack, middlewares[i + 1])
            /\ trace' = Append(trace, middlewares[i + 1])

\* Lines 135-153: index = -1; return dispatch(0).
ComposeStart(H) ==
    /\ mwResult = "idle"
    /\ executor' = "compose"
    /\ mwResult' = "running"
    /\ adapted' = H
    /\ dispatch(0)
    /\ UNCHANGED <<calls, hono>>

\* An interceptor run by compose calls its continuation, dispatch(i + 1),
\* for the first time.
ComposeNext ==
    /\ executor = "compose"
    /\ CanCall
    /\ PosOf(Top) + 1 > index
    /\ calls' = [calls EXCEPT ![Top] = @ + 1]
    /\ dispatch(PosOf(Top) + 1)
    /\ UNCHANGED <<executor, mwResult, adapted, hono>>

\* Lines 139-141: dispatch(i) with i <= index throws 'next() called multiple
\* times'. The interceptor that called catches the error and goes on, or
\* the error propagates and the chain rejects.
ComposeNextTwice(caught) ==
    /\ executor = "compose"
    /\ CanCall
    /\ PosOf(Top) + 1 <= index
    /\ calls' = [calls EXCEPT ![Top] = @ + 1]
    /\ IF caught
       THEN UNCHANGED <<stack, mwResult>>
       ELSE stack' = << >> /\ mwResult' = "threw"
    /\ UNCHANGED <<executor, index, trace, adapted, hono>>

\* The interceptor or the loader on top of the stack returns; when the
\* first interceptor returns the chain has returned.
MwReturn ==
    /\ mwResult = "running"
    /\ stack # << >>
    /\ Top \in adapted => hono[Top].returned
    /\ stack' = SubSeq(stack, 1, Len(stack) - 1)
    /\ mwResult' = IF Len(stack) = 1 THEN "returned" ELSE "running"
    /\ UNCHANGED <<executor, index, calls, trace, adapted, hono>>

\* The interceptor or the loader on top of the stack throws, nothing below
\* it catches, and the chain rejects.
MwThrow ==
    /\ mwResult = "running"
    /\ stack # << >>
    /\ stack' = << >>
    /\ mwResult' = "threw"
    /\ UNCHANGED <<executor, index, calls, trace, adapted, hono>>

----------------------------------------------------------------------------
(* adaptHonoMiddleware *)

\* The Hono middleware of the wrapper on top of the stack is running.
HonoRunning ==
    /\ mwResult = "running"
    /\ stack # << >>
    /\ Top \in adapted
    /\ ~hono[Top].returned

\* Lines 106-109: the Hono middleware calls its next, wrappedNext, which
\* sets nextCalled and invokes nothing.
HonoCallsNext ==
    /\ HonoRunning
    /\ ~hono[Top].nextCalled
    /\ hono' = [hono EXCEPT ![Top].nextCalled = TRUE]
    /\ UNCHANGED <<executor, index, stack, calls, trace, mwResult, adapted>>

\* Lines 77-80: the Hono middleware calls c.status(code).
HonoSetsStatus ==
    /\ HonoRunning
    /\ ~hono[Top].status
    /\ hono' = [hono EXCEPT ![Top].status = TRUE]
    /\ UNCHANGED <<executor, index, stack, calls, trace, mwResult, adapted>>

\* Lines 62-64 on the context of line 102: the Hono middleware calls
\* c.set('requestId', id), as requestId of hono-examples.ts does.
HonoSetsRequestId(id) ==
    /\ HonoRunning
    /\ hono[Top].requestId = ""
    /\ hono' = [hono EXCEPT ![Top].requestId = id]
    /\ UNCHANGED <<executor, index, stack, calls, trace, mwResult, adapted>>

\* Line 65 on the context of line 102: the Hono middleware calls
\* c.get('requestId'); the Map of its own context answers.
HonoGetsRequestId ==
    /\ HonoRunning
    /\ hono[Top].got = "unread"
    /\ hono' = [hono EXCEPT ![Top].got =
                    IF hono[Top].requestId = "" THEN "undefined"
                    ELSE hono[Top].requestId]
    /\ UNCHANGED <<executor, index, stack, calls, trace, mwResult, adapted>>

\* The continuation the executor gave the wrapper on top of the stack.
wrapperNext ==
    IF executor = "runMiddleware" THEN next ELSE dispatch(PosOf(Top) + 1)

\* Lines 112-126: the Hono middleware has returned.  nextCalled: return
\* next().  Else a status: throw new Response.  Else ("Default: continue"):
\* return next().
HonoReturns ==
    /\ HonoRunning
    /\ hono' = [hono EXCEPT ![Top].returned = TRUE]
    /\ IF ~hono[Top].nextCalled /\ hono[Top].status
       THEN /\ stack' = << >>
            /\ mwResult' = "threw"
            /\ UNCHANGED <<index, calls, trace>>
       ELSE /\ calls' = [calls EXCEPT ![Top] = @ + 1]
            /\ wrapperNext
            /\ UNCHANGED mwResult
    /\ UNCHANGED <<executor, adapted>>

NextMw ==
    \/ \E H \in SUBSET DOMAIN NoCalls : RunMiddlewareStart(H) /\ UNCHANGED notMw
    \/ RunMiddlewareNext /\ UNCHANGED notMw
    \/ \E H \in SUBSET DOMAIN NoCalls : ComposeStart(H) /\ UNCHANGED notMw
    \/ ComposeNext /\ UNCHANGED notMw
    \/ \E caught \in BOOLEAN : ComposeNextTwice(caught) /\ UNCHANGED notMw
    \/ MwReturn /\ UNCHANGED notMw
    \/ MwThrow /\ UNCHANGED notMw
    \/ HonoCallsNext /\ UNCHANGED notMw
    \/ HonoSetsStatus /\ UNCHANGED notMw
    \/ \E id \in RequestIds : HonoSetsRequestId(id) /\ UNCHANGED notMw
    \/ HonoGetsRequestId /\ UNCHANGED notMw
    \/ HonoReturns /\ UNCHANGED notMw

----------------------------------------------------------------------------
(* runLoaderWithTimeout *)

LOADER_TIMEOUT_MS == 30000

\* A promise: pending, fulfilled with a payload, or rejected with an error.
Pending == [state |-> "pending", data |-> NoData, error |-> ""]
Fulfilled(d) == [state |-> "fulfilled", data |-> d, error |-> ""]
Rejected(error) == [state |-> "rejected", data |-> NoData, error |-> error]

InitRace ==
    /\ raceClock = 0
    /\ raceLoader = Pending
    /\ raceTimer = "idle"
    /\ raceResult = Pending

\* Promise.race settling as the last of its promises to settle does.
raceSettleLast(result, outcome) == outcome

\* A race that a loader's payload decides whenever it arrives.
raceSettleLoaderWins(result, outcome) ==
    IF result.state = "pending" \/ outcome.state = "fulfilled"
    THEN outcome ELSE result

\* Lines 58-61, Promise.race: the first settlement decides, later ones are
\* ignored.
raceSettle(result, outcome) ==
    IF result.state = "pending" THEN outcome ELSE result

\* Lines 54-62: loader() is called and timeoutPromise(timeoutMs) arms its
\* timer.
RaceStart ==
    /\ raceTimer = "idle"
    /\ raceTimer' = "armed"
    /\ UNCHANGED <<raceClock, raceLoader, raceResult>>

\* A millisecond passes while the loader is pending.  The timer's callback
\* runs when its time has come: the clock does not pass the timeout with the
\* timer still armed.
RaceTick ==
    /\ raceLoader.state = "pending"
    /\ \/ raceTimer = "armed" /\ raceClock < LOADER_TIMEOUT_MS
       \/ raceTimer = "fired" /\ raceClock = LOADER_TIMEOUT_MS
    /\ raceClock' = raceClock + 1
    /\ UNCHANGED <<raceLoader, raceTimer, raceResult>>

\* The loader resolves with d.
RaceLoaderResolves(d) ==
    /\ raceTimer # "idle"
    /\ raceLoader.state = "pending"
    /\ raceLoader' = Fulfilled(d)
    /\ raceResult' = raceSettle(raceResult, Fulfilled(d))
    /\ UNCHANGED <<raceClock, raceTimer>>

\* The loader rejects.
RaceLoaderRejects ==
    /\ raceTimer # "idle"
    /\ raceLoader.state = "pending"
    /\ raceLoader' = Rejected("LoadFailure")
    /\ raceResult' = raceSettle(raceResult, Rejected("LoadFailure"))
    /\ UNCHANGED <<raceClock, raceTimer>>

\* Lines 45-49: the timer's callback rejects the timeout promise, when
\* timeoutMs have passed (what is left of them passes with a settled loader).
RaceTimerFires ==
    /\ raceTimer = "armed"
    /\ raceClock = LOADER_TIMEOUT_MS \/ raceLoader.state # "pending"
    /\ raceClock' = LOADER_TIMEOUT_MS
    /\ raceTimer' = "fired"
    /\ raceResult' = raceSettle(raceResult, Rejected("LoadTimeout"))
    /\ UNCHANGED raceLoader

NextRace ==
    \/ RaceStart /\ UNCHANGED notRace
    \/ RaceTick /\ UNCHANGED notRace
    \/ \E d \in Payloads : RaceLoaderResolves(d) /\ UNCHANGED notRace
    \/ RaceLoaderRejects /\ UNCHANGED notRace
    \/ RaceTimerFires /\ UNCHANGED notRace

----------------------------------------------------------------------------
(* cache.ts called directly: put, get and the purges *)

\* request.result || null of a get that found nothing.
NoRow == CachedRoute("", NoData, "", -1, NoETag)

\* Lines 94-103: store.get(url).
getCachedRouteData(s, url) == IF url \in DOMAIN s THEN s[url] ELSE NoRow

Restrict(s, K) == [k \in K |-> s[k]]

\* Lines 134-146: store.clear().
clearAllCache(s) == EmptyMap

\* The cursor over everything but the version given.
clearCacheByVersionOthers(s, version) ==
    [k \in {x \in DOMAIN s : s[x].version = version} |-> s[k]]

\* Lines 109-129: a cursor over the index 'version', IDBKeyRange.only(version),
\* deleting every row it meets.
clearCacheByVersion(s, version) ==
    Restrict(s, {k \in DOMAIN s : s[k].version # version})

\* The cursor without cursor.continue(): one matching row is deleted per call.
clearOldCacheOneRow(s, cutoff) ==
    LET old == {k \in DOMAIN s : s[k].timestamp <= cutoff} IN
    IF old = {} THEN s
    ELSE Restrict(s, DOMAIN s \ {CHOOSE k \in old : TRUE})

\* Lines 154-165: a cursor over the index 'timestamp',
\* IDBKeyRange.upperBound(cutoff), deleting every row it meets.
clearOldCache(s, cutoff) ==
    Restrict(s, {k \in DOMAIN s : ~(s[k].timestamp <= cutoff)})

NoTx == [op |-> "none", row |-> NoRow, version |-> "", maxAge |-> 0, cutoff |-> 0,
         again |-> FALSE, removed |-> {}]

PurgeOps == {"clearAll", "clearByVersion", "clearOld"}

\* The same purge called with the same argument.
SameCall(a, b) ==
    a.op \in PurgeOps /\ a.op = b.op /\ a.version = b.version /\ a.maxAge = b.maxAge

\* The record of a completed call; again: it repeats the call completed
\* before it; removed: the keys whose rows it deleted.
Done(t) == [t EXCEPT !.again = SameCall(t, lastTx),
                     !.removed = DOMAIN store \ DOMAIN store']

InitCache == tx = NoTx /\ lastTx = NoTx

\* The fingerprints passed to cacheRouteData: that of the payload, or none.
ETagsOf(d) == {generateETag(d, subtle), NoETag}

\* Lines 64-79: cacheRouteData builds the row, reading Date.now() = t, and
\* issues store.put in a readwrite transaction.
CachePut(url, d, version, etag, t) ==
    /\ tx = NoTx
    /\ t >= now
    /\ now' = t
    /\ tx' = [NoTx EXCEPT !.op = "put",
                          !.row = CachedRoute(url, d, version, t, etag)]
    /\ UNCHANGED <<store, lastTx>>

\* Lines 134-138.
CacheClearAll ==
    /\ tx = NoTx
    /\ tx' = [NoTx EXCEPT !.op = "clearAll"]
    /\ UNCHANGED <<store, now, lastTx>>

\* Lines 109-112.
CacheClearByVersion(version) ==
    /\ tx = NoTx
    /\ tx' = [NoTx EXCEPT !.op = "clearByVersion", !.version = version]
    /\ UNCHANGED <<store, now, lastTx>>

\* Lines 151-155: cutoff = Date.now() - maxAge, Date.now() reading t.
CacheClearOld(maxAge, t) ==
    /\ tx = NoTx
    /\ t >= now
    /\ now' = t
    /\ tx' = [NoTx EXCEPT !.op = "clearOld", !.maxAge = maxAge,
                          !.cutoff = t - maxAge]
    /\ UNCHANGED <<store, lastTx>>

\* What the transaction in progress makes of the store.
Applied(s, t) ==
    CASE t.op = "put" -> Put(s, t.row)
      [] t.op = "clearAll" -> clearAllCache(s)
      [] t.op = "clearByVersion" -> clearCacheByVersion(s, t.version)
      [] t.op = "clearOld" -> clearOldCache(s, t.cutoff)

\* tx.oncomplete: the transaction has committed and the call resolves.
CacheCommit ==
    /\ tx # NoTx
    /\ store' = Applied(store, tx)
    /\ lastTx' = Done(tx)
    /\ tx' = NoTx
    /\ UNCHANGED now

\* request.onerror / tx.onerror: nothing is written and the call rejects.
CacheAbort ==
    /\ tx # NoTx
    /\ lastTx' = NoTx
    /\ tx' = NoTx
    /\ UNCHANGED <<store, now>>

Versions == {APP_VERSION, OldVersion}

NextCache ==
    \/ \E url \in Keys, d \in Payloads, version \in Versions, t \in 0..MaxClock :
         \E etag \in ETagsOf(d) :
            CachePut(url, d, version, etag, t) /\ UNCHANGED notCache
    \/ CacheClearAll /\ UNCHANGED notCache
    \/ \E version \in Versions : CacheClearByVersion(version) /\ UNCHANGED notCache
    \/ \E maxAge \in 0..MaxAge, t \in 0..MaxClock :
         CacheClearOld(maxAge, t) /\ UNCHANGED notCache
    \/ CacheCommit /\ UNCHANGED notCache
    \/ CacheAbort /\ UNCHANGED notCache

----------------------------------------------------------------------------
(* notifyClientsOfUpdate *)

\* The cache keys a refresh notifies about: ctx.url.pathname + ctx.url.search.
NotifyUrls == {"/a", "/a?q=1", "/b"}

\* Lines 252-253: new URL(url, clientUrl.origin).pathname.
PathnameOf(url) == IF url = "/a?q=1" THEN "/a" ELSE url

\* The query string of a key.
SearchOf(url) == IF url = "/a?q=1" THEN "?q=1" ELSE ""

\* A window client: client.url as origin, pathname and search, and whether
\* its page is still there to receive a message. A frame showing about:blank
\* has the origin "null".
Client(origin, pathname, search, reachable) ==
    [origin |-> origin, pathname |-> pathname, search |-> search,
     reachable |-> reachable]

\* The pages of the app: one per key.
WindowClients ==
    {Client("https://app", PathnameOf(k), SearchOf(k), r) :
        k \in NotifyUrls, r \in BOOLEAN}
    \cup {Client("null", "blank", "", r) : r \in BOOLEAN}

RECURSIVE SeqsUpTo(_, _)
SeqsUpTo(S, n) ==
    IF n = 0 THEN {<< >>}
    ELSE LET shorter == SeqsUpTo(S, n - 1) IN
         shorter \cup {Append(q, x) : q \in shorter, x \in S}

\* Lines 256-260.
Message(url, data) == [type |-> "FRESH_DATA_AVAILABLE", url |-> url, data |-> data]

NoNotice == [url |-> "", data |-> NoData]

InitNotify ==
    /\ clients = << >>
    /\ notice = NoNotice
    /\ cursor = 0
    /\ inbox = << >>
    /\ notifyPc = "idle"
    /\ page = << >>

\* Lines 244-248: the call; self.clients.matchAll resolves with cs.
NotifyStart(url, data, cs) ==
    /\ notifyPc = "idle"
    /\ clients' = cs
    /\ notice' = [url |-> url, data |-> data]
    /\ cursor' = 1
    /\ inbox' = [i \in 1..Len(cs) |-> << >>]
    /\ notifyPc' = "loop"
    /\ page' = [i \in 1..Len(cs) |-> << >>]

\* Line 246: matchAll rejects; the catch of line 262 logs it.
NotifyMatchAllFails(url, data) ==
    /\ notifyPc = "idle"
    /\ notice' = [url |-> url, data |-> data]
    /\ notifyPc' = "caught"
    /\ UNCHANGED <<clients, cursor, inbox, page>>

\* new URL(url, base) throws a TypeError when base is not a URL.
ValidBase(origin) == origin # "null"

\* client.postMessage: the message is queued for the client's page; a page
\* that is gone gets nothing and the call returns normally.
postMessage(box, i, message) ==
    IF clients[i].reachable THEN [box EXCEPT ![i] = Append(@, message)] ELSE box

\* Lines 248-261: one turn of the loop.
NotifyVisit ==
    /\ notifyPc = "loop"
    /\ cursor <= Len(clients)
    /\ IF ~ValidBase(clients[cursor].origin)
       THEN /\ notifyPc' = "caught"
            /\ UNCHANGED <<cursor, inbox>>
       ELSE /\ cursor' = cursor + 1
            /\ inbox' = IF clients[cursor].pathname = PathnameOf(notice.url)
                        THEN postMessage(inbox, cursor,
                                         Message(notice.url, notice.data))
                        ELSE inbox
            /\ UNCHANGED notifyPc
    /\ UNCHANGED <<clients, notice, page>>

\* The loop is over and the function returns.
NotifyReturn ==
    /\ notifyPc = "loop"
    /\ cursor > Len(clients)
    /\ notifyPc' = "done"
    /\ UNCHANGED <<clients, notice, cursor, inbox, page>>

\* part_011 lines 304-308: the listener's test of a FRESH_DATA_AVAILABLE
\* message against window.location.pathname; past it the page re-fetches
\* window.location.href.
onMessage(location, message) ==
    IF message.url # location.pathname THEN "ignored" ELSE "refetch"

\* part_011 lines 303-313: the page of client i handles the next message of
\* its inbox.
ClientMessage(i) ==
    /\ i \in 1..Len(clients)
    /\ Len(page[i]) < Len(inbox[i])
    /\ page' = [page EXCEPT ![i] =
                  Append(@, onMessage(clients[i], inbox[i][Len(page[i]) + 1]))]
    /\ UNCHANGED <<clients, notice, cursor, inbox, notifyPc>>

NextNotify ==
    \/ /\ notifyPc = "idle"
       /\ \E url \in NotifyUrls, data \in Payloads :
            \E cs \in SeqsUpTo(WindowClients, MaxClients) :
               NotifyStart(url, data, cs) /\ UNCHANGED notNotify
    \/ \E url \in NotifyUrls, data \in Payloads :
         NotifyMatchAllFails(url, data) /\ UNCHANGED notNotify
    \/ NotifyVisit /\ UNCHANGED notNotify
    \/ NotifyReturn /\ UNCHANGED notNotify
    \/ \E i \in 1..MaxClients : ClientMessage(i) /\ UNCHANGED notNotify

----------------------------------------------------------------------------
(* withDB: the connection and the transaction of one cache utility call *)

DbCalls == 1..MaxCalls

\* The utilities and the transaction mode each passes to withDB.
ReadOps == {"get"}
WriteOps == {"put", "clearByVersion", "clearAll", "clearOld"}

\* The utilities that delete through a cursor: their store.delete requests
\* have no handlers of their own.
CursorOps == {"clearByVersion", "clearOld"}

\* promise: the promise the utility returned; conn: db is open; tx: the
\* transaction; result: what a get resolved with; error: what it rejected with.
NoCall == [op |-> "none", promise |-> "none", conn |-> FALSE, tx |-> "none",
           result |-> "none", error |-> "none"]

InitDB == dbCalls = [c \in DbCalls |-> NoCall]

\* Lines 47-49: the utility calls withDB, which awaits openDB().
DbCall(c, op) ==
    /\ dbCalls[c].op = "none"
    /\ \A d \in DbCalls : d < c => dbCalls[d].op # "none"
    /\ dbCalls' = [dbCalls EXCEPT ![c] = [NoCall EXCEPT !.op = op, !.promise = "pending"]]

Opening(c) ==
    dbCalls[c].promise = "pending" /\ dbCalls[c].tx = "none" /\ ~dbCalls[c].conn

\* Line 25: indexedDB.open fails; db is still null in the finally.
DbOpenFails(c) ==
    /\ Opening(c)
    /\ dbCalls' = [dbCalls EXCEPT ![c].promise = "rejected",
                                  ![c].error = "request.error"]

\* Lines 26 and 50-52: the connection is open, the transaction is created and
\* the callback has issued its request.
DbOpened(c) ==
    /\ Opening(c)
    /\ dbCalls' = [dbCalls EXCEPT ![c].conn = TRUE, ![c].tx = "active"]

\* The callback's promise is pending on a live transaction.
Running(c) == dbCalls[c].promise = "pending" /\ dbCalls[c].tx = "active"

\* Lines 53-58: the callback's promise settles; the finally closes db.
settle(c, outcome, txState, result, error) ==
    dbCalls' = [dbCalls EXCEPT ![c].promise = outcome, ![c].tx = txState,
                               ![c].result = result, ![c].error = error,
                               ![c].conn = FALSE]

\* Line 98: request.onsuccess of store.get: resolve(request.result || null).
DbGetSucceeds(c, found) ==
    /\ Running(c) /\ dbCalls[c].op \in ReadOps
    /\ settle(c, "resolved", "complete", IF found THEN "row" ELSE "absent", "none")

\* tx.oncomplete of a readwrite transaction: resolve().
DbTxCompletes(c) ==
    /\ Running(c) /\ dbCalls[c].op \in WriteOps
    /\ settle(c, "resolved", "complete", "none", "none")

\* request.onerror: reject(request.error); the transaction aborts.
DbRequestFails(c) ==
    /\ Running(c)
    /\ settle(c, "rejected", "aborted", "none", "request.error")

\* tx.onerror: the error event of a store.delete request bubbles to the
\* transaction; reject(tx.error).
DbTxError(c) ==
    /\ Running(c) /\ dbCalls[c].op \in CursorOps
    /\ settle(c, "rejected", "aborted", "none", "tx.error")

\* The requests have succeeded and the commit fails (quota, I/O): the
\* transaction gets an abort event only. No handler is set for it, so the
\* callback's promise stays pending and withDB's finally is not reached.
DbCommitAborts(c) ==
    /\ Running(c) /\ dbCalls[c].op \in WriteOps
    /\ dbCalls' = [dbCalls EXCEPT ![c].tx = "aborted"]

NextDB ==
    \/ \E c \in DbCalls, op \in ReadOps \cup WriteOps :
         DbCall(c, op) /\ UNCHANGED notDB
    \/ \E c \in DbCalls : DbOpenFails(c) /\ UNCHANGED notDB
    \/ \E c \in DbCalls : DbOpened(c) /\ UNCHANGED notDB
    \/ \E c \in DbCalls, found \in BOOLEAN : DbGetSucceeds(c, found) /\ UNCHANGED notDB
    \/ \E c \in DbCalls : DbTxCompletes(c) /\ UNCHANGED notDB
    \/ \E c \in DbCalls : DbRequestFails(c) /\ UNCHANGED notDB
    \/ \E c \in DbCalls : DbTxError(c) /\ UNCHANGED notDB
    \/ \E c \in DbCalls : DbCommitAborts(c) /\ UNCHANGED notDB

----------------------------------------------------------------------------
(* NavigationController: the history ring *)

\* The history after n navigations of an idle controller, the first i of
\* them to one URL and the rest to another.
EarlierHistory(n, i, first, rest) ==
    [j \in 1..n |-> IF j <= i THEN first ELSE rest]

EarlierHistories ==
    {EarlierHistory(n, i, Url("/a", ""), Url("/b", "")) :
        n \in 0..maxHistorySize, i \in 0..maxHistorySize}

InitStarted ==
    /\ started = << >>
    /\ starts = 0

\* A controller that has made at most maxHistorySize navigations, all of
\* them settled.
InitHistory ==
    /\ InitNavIdle
    /\ navigationHistory \in EarlierHistories
    /\ started = navigationHistory
    /\ starts = 0

\* Lines 143-178: navigate(url) with nothing pending for the URL, taken
\* together with the settlement of the navigation it starts (the finally of
\* lines 165-168 removes the two map entries again).
HistoryNavigate(url) ==
    LET n == normalizeUrl(url) IN
    /\ starts < MaxStarts
    /\ n \notin DOMAIN pending
    /\ navigationHistory' = addToHistory(navigationHistory, n)
    /\ started' = Append(started, n)
    /\ starts' = starts + 1

NextHistory ==
    \E url \in RawUrls : HistoryNavigate(url) /\ UNCHANGED notHistory

----------------------------------------------------------------------------
(* generateETag called on serialized payloads of any length *)

\* UTF-16 code units: '"', 'a' and the largest one.
ETagChars == {34, 97, 65535}

\* The payload of n code units c, with d at position k.
Filled(n, c, d, k) == [i \in 1..n |-> IF i = k THEN d ELSE c]

\* Short payloads and payloads around the 1000 code units the loop reads.
ETagLengths ==
    (0..MaxShort) \cup ((HashPrefixLen - 1)..(HashPrefixLen + MaxOver))

ETagInputs ==
    {Filled(n, c, d, k) : n \in ETagLengths, c \in ETagChars, d \in ETagChars,
                          k \in {1, HashPrefixLen, HashPrefixLen + 1}}

NoETagCall == [data |-> NoData, subtle |-> FALSE, etag |-> NoETag]

InitETag == etagCall = NoETagCall

\* Lines 271-292: generateETag(data).  hasSubtle is FALSE when crypto.subtle
\* is missing and when the digest throws (the catch of lines 281-283 leads to
\* the fallback as well).
GenerateETag(data, hasSubtle) ==
    /\ etagCall = NoETagCall
    /\ etagCall' = [data |-> data, subtle |-> hasSubtle,
                 etag |-> generateETag(data, hasSubtle)]

NextETag ==
    \E data \in ETagInputs, hasSubtle \in BOOLEAN :
        GenerateETag(data, hasSubtle) /\ UNCHANGED notETag

----------------------------------------------------------------------------
(* The specifications *)

Init ==
    /\ InitSW /\ InitNav /\ InitMw /\ InitRace /\ InitCache /\ InitNotify /\ InitDB
    /\ InitStarted /\ InitETag

Next == NextSW

Spec == Init /\ [][Next]_vars

\* The microtask of promise.finally runs once the refresh has settled.
SpecFair ==
    Spec /\ \A r \in Reqs : WF_vars(RefreshFinally(r) /\ UNCHANGED notSW)

\* cache.ts lines 134-146, called while the service worker serves:
\* clearAllCache()'s transaction completes and the call resolves.
PurgeAll ==
    /\ store # EmptyMap
    /\ store' = clearAllCache(store)
    /\ UNCHANGED <<pendingRevalidations, now, subtle, reqKey, reqPc, reqData,
                   reqResp, rv, loaderCalls, notifyLog>>

NextPurge ==
    \/ NextSW
    \/ PurgeAll /\ UNCHANGED notSW

\* The render strategy with full purges of the store at any moment.
SpecPurge == Init /\ [][NextPurge]_vars

\* The page's controller, beside a service worker that serves nothing.
InitQuiet ==
    /\ subtle = TRUE /\ store = EmptyMap /\ InitSWIdle
    /\ InitNav /\ InitMw /\ InitRace /\ InitCache /\ InitNotify /\ InitDB
    /\ InitStarted /\ InitETag

SpecNav == InitQuiet /\ [][NextNav]_vars

\* Timers that are armed fire and an aborted fetch rejects; a fetch that
\* is not aborted may stay without an answer for ever.
SpecNavFair ==
    /\ SpecNav
    /\ \A i \in Ops : WF_vars(PrefetchEvict(i) /\ UNCHANGED notNav)
    /\ \A i \in Ops : WF_vars(NavTimeout(i) /\ UNCHANGED notNav)
    /\ \A i \in Ops : WF_vars(NavAbortSettles(i) /\ UNCHANGED notNav)

\* One run of a chain of three interceptors around the loader.
SpecMw == InitQuiet /\ [][NextMw]_vars

\* One call of runLoaderWithTimeout with the default timeout.
SpecRace == InitQuiet /\ [][NextRace]_vars

\* The cache utilities called on a store that starts empty.
SpecCache == InitQuiet /\ [][NextCache]_vars

\* One notification, to any list of up to MaxClients window clients.
SpecNotify == InitQuiet /\ [][NextNotify]_vars

\* Calls of the cache utilities, each with its own connection.
SpecDB == InitQuiet /\ [][NextDB]_vars

\* The controller beside an idle service worker, some navigations in.
InitRing ==
    /\ subtle = TRUE /\ store = EmptyMap /\ InitSWIdle
    /\ InitHistory /\ InitMw /\ InitRace /\ InitCache /\ InitNotify /\ InitDB
    /\ InitETag

\* navigate calls of a controller whose earlier navigations have settled.
SpecHistory == InitRing /\ [][NextHistory]_vars

\* One call of generateETag.
SpecETag == InitQuiet /\ [][NextETag]_vars

----------------------------------------------------------------------------
(* Claims about the render strategy *)

InFlight(r) == rv[r].pc \in {"loading", "writing", "notifying"}

RefreshFailed(r) == rv[r].pc = "settled" /\ rv[r].outcome \in {"loadfail", "timeout"}

\* C1: for every cache key at most one background revalidation is in flight,
\* and a HIT for a key that has a ticket starts no load operation and
\* registers no ticket and no refresh (it skips).
C1_AtMostOneRevalidation ==
    /\ [](\A k \in Keys : Cardinality({r \in Reqs : reqKey[r] = k /\ InFlight(r)}) <= 1)
    /\ [][\A r \in Reqs :
            (reqPc[r] = "lookup" /\ reqPc'[r] = "done"
               /\ reqKey[r] \in DOMAIN pendingRevalidations)
            => /\ loaderCalls' = loaderCalls
               /\ pendingRevalidations' = pendingRevalidations
               /\ rv' = rv]_vars

\* A HIT was answered while another request's refresh of the same key was in
\* flight, and spawned nothing.
C1_Witness ==
    \E r1, r2 \in Reqs :
        /\ r1 # r2 /\ reqKey[r1] = reqKey[r2]
        /\ InFlight(r1)
        /\ reqResp[r2].xcache = "HIT" /\ rv[r2].pc = "none"

\* C3: a HIT returns the response built from the cached row in the step that
\* spawns the refresh (the refresh, if started, is still loading), and no
\* later step, whatever the refresh's outcome, changes or fails a response
\* that was returned.
C3_HitNotBlockedByRefresh ==
    [][\A r \in Reqs :
         /\ (reqPc[r] = "lookup" /\ reqPc'[r] = "done")
            => /\ reqResp'[r] = Response("HIT", "x-cache-version", store[reqKey[r]].version,
                                         store[reqKey[r]].etag,
                                         renderFn(store[reqKey[r]].data))
               /\ rv'[r].pc \in {"none", "loading", "settled"}
               /\ rv'[r].pc = "settled" => rv'[r].outcome = "offline"
         /\ reqPc[r] = "done"
            => reqPc'[r] = "done" /\ reqResp'[r] = reqResp[r]]_vars

\* The refresh of a HIT has failed (load, timeout, store or notification) and
\* the HIT response stands.
C3_Witness ==
    \E r \in Reqs :
        /\ reqPc[r] = "done" /\ reqResp[r].xcache = "HIT"
        /\ rv[r].pc = "settled"
        /\ rv[r].outcome \in {"loadfail", "timeout", "storefail", "notifyfail"}

\* C4: a refresh whose fresh payload has the ETag of the row it was started
\* for writes nothing to the store and calls no notification: every step of a
\* refresh that changes the store or its notification log is taken with a
\* fresh ETag different from the cached one, and the step that ends an
\* unchanged refresh leaves store and log as they were.
C4_UnchangedEtagNoWrite ==
    [][\A r \in Reqs :
         /\ (rv'[r] # rv[r] /\ rv[r].pc # "none"
               /\ (store' # store \/ notifyLog' # notifyLog))
            => generateETag(rv[r].fresh, subtle) # rv[r].cachedEtag
         /\ (rv[r].pc = "loading" /\ rv'[r].outcome = "unchanged")
            => store' = store /\ notifyLog' = notifyLog]_vars

\* An unchanged refresh has settled, the row keeps a timestamp older than the
\* clock, and nothing was notified.
C4_Witness ==
    \E r \in Reqs :
        /\ rv[r].pc = "settled" /\ rv[r].outcome = "unchanged"
        /\ reqKey[r] \in DOMAIN store
        /\ store[reqKey[r]].timestamp < now
        /\ notifyLog[r] = << >>

\* C5: a refresh that found a changed ETag and whose write commits overwrites
\* the row with the fresh payload, the current version and the fresh ETag,
\* and calls notifyClientsOfUpdate once, with the key and the fresh payload,
\* when the write has committed and not before.
C5_ChangedEtagWritesThenNotifies ==
    /\ [](\A r \in Reqs : Len(notifyLog[r]) <= 1)
    /\ [][\A r \in Reqs :
            /\ (rv[r].pc = "writing" /\ rv'[r].pc = "notifying")
               => /\ store'[reqKey[r]] =
                       CachedRoute(reqKey[r], rv[r].fresh, getAppVersion, now',
                                   generateETag(rv[r].fresh, subtle))
                  /\ store'[reqKey[r]].etag # rv[r].cachedEtag
                  /\ notifyLog'[r] = << [url |-> reqKey[r], data |-> rv[r].fresh] >>
            /\ notifyLog'[r] # notifyLog[r]
               => rv[r].pc = "writing" /\ rv'[r].pc = "notifying"
            /\ (rv[r].pc = "loading" /\ rv'[r].pc = "writing")
               => generateETag(rv'[r].fresh, subtle) # rv[r].cachedEtag]_vars

\* A refresh has written a changed payload and notified it.
C5_Witness ==
    \E r \in Reqs :
        /\ rv[r].pc = "notifying"
        /\ store[reqKey[r]].data = rv[r].fresh
        /\ store[reqKey[r]].etag # rv[r].cachedEtag
        /\ notifyLog[r] = << [url |-> reqKey[r], data |-> rv[r].fresh] >>

\* C6: a lookup that finds a row of another version does what a lookup that
\* finds no row does: the load operation is started, no refresh and no ticket
\* is created, the store (the old row included) is untouched by the read; the
\* request then ends MISS with the row rewritten under the current version.
C6_VersionMismatchIsMiss ==
    [][\A r \in Reqs :
         /\ (reqPc[r] = "lookup" /\ reqPc'[r] \notin {"lookup", "failed"}
               /\ (reqKey[r] \notin DOMAIN store
                     \/ store[reqKey[r]].version # getAppVersion))
            => /\ reqPc'[r] = "loading"
               /\ loaderCalls'[reqKey[r]] = loaderCalls[reqKey[r]] + 1
               /\ rv' = rv
               /\ pendingRevalidations' = pendingRevalidations
               /\ store' = store
         /\ (reqPc[r] = "writing" /\ reqPc'[r] = "done")
            => /\ reqResp'[r].xcache = "MISS"
               /\ store'[reqKey[r]].version = getAppVersion]_vars

\* A request is on the MISS path while the row of the old version is still
\* in the store.
C6_Witness ==
    \E r \in Reqs :
        /\ reqPc[r] \in {"loading", "writing"}
        /\ reqKey[r] \in DOMAIN store
        /\ store[reqKey[r]].version = OldVersion
        /\ rv[r] = NoRefresh

\* C7: a ticket never outlives its refresh (a ticket belongs to a refresh of
\* its key that has not run its finally), a settled refresh is left only by
\* its finally, which deletes the key, and no refresh stays settled for
\* ever: every settled refresh eventually runs its finally.
C7_TicketEventuallyRemoved ==
    /\ [](\A k \in DOMAIN pendingRevalidations :
             /\ reqKey[pendingRevalidations[k]] = k
             /\ rv[pendingRevalidations[k]].pc
                   \in {"loading", "writing", "notifying", "settled"})
    /\ [][\A r \in Reqs :
            (rv[r].pc = "settled" /\ rv'[r].pc # "settled")
            => /\ rv'[r].pc = "cleaned"
               /\ reqKey[r] \notin DOMAIN pendingRevalidations']_vars
    /\ \A r \in Reqs : []<>(rv[r].pc # "settled")

\* After one refresh of a key was cleaned up, a later HIT has started another.
C7_Witness ==
    \E r1, r2 \in Reqs :
        /\ r1 # r2 /\ reqKey[r1] = reqKey[r2]
        /\ rv[r1].pc = "cleaned"
        /\ rv[r2].pc = "loading"
        /\ pendingRevalidations[reqKey[r2]] = r2

\* C8: the step in which a refresh's load rejects or times out leaves the
\* store and the notifications as they were; while the refresh sits settled
\* it has notified nothing and the key is still a HIT; its finally then
\* clears the ticket.
C8_FailedRefreshKeepsStale ==
    /\ [](\A r \in Reqs : RefreshFailed(r) =>
             /\ notifyLog[r] = << >>
             /\ IsHit(reqKey[r])
             /\ reqKey[r] \in DOMAIN pendingRevalidations)
    /\ [][\A r \in Reqs :
            /\ (rv[r].pc = "loading" /\ RefreshFailed(r)')
               => store' = store /\ notifyLog' = notifyLog
            /\ (RefreshFailed(r) /\ rv'[r] # rv[r])
               => /\ rv'[r].pc = "cleaned"
                  /\ reqKey[r] \notin DOMAIN pendingRevalidations'
                  /\ store' = store]_vars

\* A refresh has failed, the row it was started for is still the one its
\* request was served, and the next request for the key is about to read it.
C8_Witness ==
    \E r1, r2 \in Reqs :
        /\ r1 < r2 /\ reqKey[r1] = reqKey[r2]
        /\ RefreshFailed(r1)
        /\ reqPc[r2] = "lookup"
        /\ IsHit(reqKey[r1])
        /\ reqResp[r1] = Response("HIT", "x-cache-version", store[reqKey[r1]].version,
                                  store[reqKey[r1]].etag,
                                  renderFn(store[reqKey[r1]].data))

\* C9: on the MISS path, a load that rejects or times out throws to the
\* caller and leaves the store as it was; a load that resolves leads to
\* cacheRouteData, whose commit stores the payload under the key with the
\* current version and the payload's ETag and returns the MISS response.
C9_MissPath ==
    [][\A r \in Reqs :
         /\ (reqPc[r] = "loading" /\ reqPc'[r] = "failed")
            => /\ store' = store
               /\ reqResp'[r] \in {Thrown("LoadFailure"), Thrown("LoadTimeout")}
         /\ (reqPc[r] = "loading" /\ reqPc'[r] = "writing")
            => store' = store /\ reqResp'[r] = NoResp
         /\ (reqPc[r] = "writing" /\ reqPc'[r] = "done")
            => /\ store'[reqKey[r]] =
                    CachedRoute(reqKey[r], reqData[r], getAppVersion, now',
                                generateETag(reqData[r], subtle))
               /\ reqResp'[r] =
                    Response("MISS", VERSION_HEADER, getAppVersion,
                             generateETag(reqData[r], subtle),
                             renderFn(reqData[r]))]_vars

\* One request failed in its load and its key has no row; another was served
\* MISS and its row is stored.
C9_Witness ==
    \E r1, r2 \in Reqs :
        /\ reqPc[r1] = "failed" /\ reqResp[r1].error \in {"LoadFailure", "LoadTimeout"}
        /\ reqKey[r1] \notin DOMAIN store
        /\ reqPc[r2] = "done" /\ reqResp[r2].xcache = "MISS"
        /\ reqKey[r2] \in DOMAIN store
        /\ store[reqKey[r2]].etag = reqResp[r2].etag
        /\ store[reqKey[r2]].version = getAppVersion

----------------------------------------------------------------------------
(* Claims about the NavigationController *)

\* C2: a navigate call for a URL whose path (its form without the fragment)
\* is that of an entry in the pending map is handed that entry's operation,
\* whether a navigation or a prefetch made it, and so settles as that
\* operation settles; the call issues no fetch and changes neither map, no
\* operation and not the history; and navigate issues a fetch only for a URL
\* of which no form, with or without fragment, is pending.
C2_NavigateJoinsPending ==
    [][/\ joined' # joined
          => /\ Url(joined'.url.path, "") \in DOMAIN pending
             /\ joined'.op = pending[Url(joined'.url.path, "")]
             /\ fetches' = fetches
             /\ nav' = nav
             /\ pending' = pending
             /\ activeRequests' = activeRequests
             /\ navigationHistory' = navigationHistory
       /\ \A i \in Ops :
            (nav[i].kind = "none" /\ nav'[i].kind = "nav")
            => /\ fetches' = fetches + 1
               /\ \A k \in DOMAIN pending : k.path # nav'[i].url.path]_vars

\* navigate(/a#x) was handed the one operation made for /a, which has since
\* succeeded: the caller has that result, and one fetch was made.
C2_Witness ==
    /\ joined.url = Url("/a", "#x")
    /\ nav[joined.op].kind \in {"nav", "prefetch"}
    /\ nav[joined.op].url = Url("/a", "")
    /\ nav[joined.op].result = "ok"
    /\ fetches = 1

----------------------------------------------------------------------------
(* Claims about the middleware chain *)

\* The place of an invocation in the order A, B, C, L.
Rank(x) == IF x = handler THEN Len(middlewares) ELSE PosOf(x)

\* How many times the loader was invoked.
LoaderRuns == Cardinality({i \in 1..Len(trace) : trace[i] = handler})

\* C10: in the chain that runMiddleware runs for data loading, the
\* invocations occur in the order A, B, C, L, and when the chain has returned
\* the loader has executed exactly once if and only if each of A, B and C
\* called its continuation exactly once.
C10_OrderAndLoaderOnceIff ==
    executor = "runMiddleware" =>
        /\ \A i, j \in 1..Len(trace) : i < j => Rank(trace[i]) <= Rank(trace[j])
        /\ mwResult = "returned" =>
              (LoaderRuns = 1 <=> \A m \in DOMAIN calls : calls[m] = 1)

\* C11: under runMiddleware and under compose alike, a step in which an
\* interceptor calls its continuation for the second time (or a later time)
\* invokes nothing, neither an interceptor nor the loader: it fails, and the
\* interceptor goes on or the chain rejects; and the loader is never invoked
\* twice.
C11_SecondNextIsProtocolError ==
    /\ [](LoaderRuns <= 1)
    /\ [][\A m \in DOMAIN calls :
            (calls[m] >= 1 /\ calls'[m] = calls[m] + 1)
            => /\ trace' = trace
               /\ index' = index
               /\ \/ stack' = stack /\ mwResult' = mwResult
                  \/ stack' = << >> /\ mwResult' = "threw"]_vars

\* An interceptor that has returned without having called its continuation:
\* for a wrapper, the Hono middleware it wraps has returned without calling
\* the next it was given.
ReturnedWithoutNext(m) ==
    IF m \in adapted
    THEN hono[m].returned /\ ~hono[m].nextCalled
    ELSE /\ \E i \in 1..Len(trace) : trace[i] = m
         /\ \A i \in 1..Len(stack) : stack[i] # m
         /\ mwResult # "threw"
         /\ calls[m] = 0

\* C12: whenever an interceptor of the list, a Hono middleware behind
\* adaptHonoMiddleware included, has returned without calling its
\* continuation, no later interceptor and not the loader has been invoked.
C12_NoNextHaltsChain ==
    \A m \in DOMAIN calls :
        ReturnedWithoutNext(m)
        => \A i \in 1..Len(trace) : Rank(trace[i]) <= Rank(m)

----------------------------------------------------------------------------
(* Claims about runLoaderWithTimeout *)

\* C13: with the timeout T = LOADER_TIMEOUT_MS, a loader that resolves
\* strictly before T decides the race with its payload (the MISS path goes on
\* with it); a loader still pending after T has lost the race to the timeout
\* error, and settling later does not change that; no timeout error comes
\* before T; and the race, once decided, keeps its one outcome.
C13_TimeoutBoundary ==
    /\ [](raceResult = Rejected("LoadTimeout") => raceClock >= LOADER_TIMEOUT_MS)
    /\ []((raceLoader.state = "pending" /\ raceClock > LOADER_TIMEOUT_MS)
             => raceResult = Rejected("LoadTimeout"))
    /\ [][(raceLoader.state = "pending" /\ raceLoader'.state = "fulfilled"
             /\ raceClock < LOADER_TIMEOUT_MS)
          => raceResult' = raceLoader']_vars
    /\ [][(raceLoader.state = "pending" /\ raceLoader'.state # "pending"
             /\ raceClock > LOADER_TIMEOUT_MS)
          => raceResult' = Rejected("LoadTimeout")]_vars
    /\ [][raceResult.state # "pending" => raceResult' = raceResult]_vars

\* A loader that resolved one millisecond before the timeout has won.
C13_Witness ==
    /\ raceClock = LOADER_TIMEOUT_MS - 1
    /\ raceLoader = Fulfilled(PayloadAa)
    /\ raceResult = Fulfilled(PayloadAa)

----------------------------------------------------------------------------
(* More claims about the render strategy *)

\* C14: a refresh that the offline guard aborted starts no load operation,
\* and in no state does pendingRevalidations hold a ticket of such a refresh.
C14_OfflineRegistersNoTicket ==
    /\ [](\A r \in Reqs :
             rv[r].outcome = "offline"
             => ~(/\ reqKey[r] \in DOMAIN pendingRevalidations
                  /\ pendingRevalidations[reqKey[r]] = r))
    /\ [][\A r \in Reqs :
            (rv[r].pc = "none" /\ rv'[r].outcome = "offline")
            => loaderCalls' = loaderCalls]_vars

----------------------------------------------------------------------------
(* Claims about the cache store *)

\* The call whose transaction completes in this step.
Commits(op) == tx.op = op /\ tx' = NoTx /\ lastTx' = Done(tx)

\* C15: a put resolves in the step its transaction completes, and until the
\* next write or purge completes a get of its key returns the row with the
\* data, version and etag that were put; a put replaces the row under its key
\* and touches no other key, so the store holds one row per key and the last
\* put wins.
C15_PutGetRoundTrip ==
    /\ [](/\ WellKeyed(store)
          /\ lastTx.op = "put"
             => LET got == getCachedRouteData(store, lastTx.row.url) IN
                /\ got.data = lastTx.row.data
                /\ got.version = lastTx.row.version
                /\ got.etag = lastTx.row.etag)
    /\ [][store' # store => Commits(tx.op)]_vars
    /\ [][Commits("put")
          => /\ DOMAIN store' = DOMAIN store \cup {tx.row.url}
             /\ getCachedRouteData(store', tx.row.url) = tx.row
             /\ \A k \in DOMAIN store \ {tx.row.url} : store'[k] = store[k]]_vars

\* A put of "/a" has resolved and is what a get returns, "/b" is stored too,
\* and a second put of "/a" with other data is on its way.
C15_Witness ==
    /\ lastTx.op = "put"
    /\ lastTx.row.url = "/a"
    /\ getCachedRouteData(store, "/a") = lastTx.row
    /\ "/b" \in DOMAIN store
    /\ tx.op = "put"
    /\ tx.row.url = "/a"
    /\ tx.row.data # lastTx.row.data

\* A purge completes that repeats the call completed just before it.
Repeats == tx.op \in PurgeOps /\ SameCall(tx, lastTx) /\ Commits(tx.op)

\* The rows of s under the keys of t are the rows of t.
SubStore(t, s) == DOMAIN t \subseteq DOMAIN s /\ \A k \in DOMAIN t : t[k] = s[k]

\* C16 as stated: clearAllCache, clearCacheByVersion(v) and clearOldCache(m)
\* called twice in a row leave the store as one call left it, and after
\* clearAllCache the store is empty.
C16_PurgeTwiceSameStore ==
    /\ [][Repeats => store' = store]_vars
    /\ [](lastTx.op = "clearAll" => store = EmptyMap)

\* C16 amended: the second of two identical purges in a row changes nothing
\* when it is clearAllCache or clearCacheByVersion(v), or clearOldCache(m)
\* with the cutoff of the first; a clearOldCache(m) that reads a later clock
\* only deletes rows; after clearAllCache the store is empty both times.
C16_PurgeIdempotentAtSameCutoff ==
    /\ [][(Repeats /\ (tx.op = "clearOld" => tx.cutoff = lastTx.cutoff))
          => store' = store]_vars
    /\ [][Repeats => SubStore(store', store)]_vars
    /\ [](lastTx.op = "clearAll" => store = EmptyMap)

\* clearOldCache(m) has completed twice in a row at clock 0, and a row
\* newer than the cutoff is still stored.
C16_Witness ==
    /\ lastTx.op = "clearOld"
    /\ lastTx.again
    /\ now = 0
    /\ store # EmptyMap
    /\ tx = NoTx

----------------------------------------------------------------------------
(* Claims about cancellation in the NavigationController *)

\* navigate(url, {replace: true}) is called in this step.
ReplaceCalled(url) ==
    \/ \E i \in Ops : NavigateStart(i, url, TRUE)
    \/ NavigateJoin(url, TRUE)

\* A navigation whose promise has not settled.
PendingNav(i) == nav[i].kind = "nav" /\ nav[i].result = "pending"

\* C17: a call of navigate(url, {replace: true}) leaves every pending
\* navigation to another normalized URL with its fetch aborted, also when a
\* navigation to url is itself pending.
C17_ReplaceCancelsOthers ==
    [][\A url \in RawUrls :
         ReplaceCalled(url)
         => \A j \in Ops :
              (PendingNav(j) /\ nav[j].url # normalizeUrl(url))
              => nav'[j].aborted]_vars

\* C18: a navigation whose signal was aborted, by cancel, cancelAll, replace
\* or a timeout, settles with the failure result that carries the AbortError;
\* no navigation promise is rejected, and a caller that joined the navigation
\* holds the same promise and so the same result.
C18_AbortResolvesWithFailure ==
    /\ [](\A i \in Ops : nav[i].kind = "nav" => nav[i].result # "rejected")
    /\ [](\A i \in Ops :
            (nav[i].kind = "nav" /\ nav[i].aborted)
            => nav[i].result \in {"pending", Caught("AbortError")})
    /\ [][\A i \in Ops :
            (PendingNav(i) /\ nav[i].aborted /\ ~PendingNav(i)')
            => nav'[i].result = "aborted"]_vars
    /\ [](joined.op # 0 => joined.op \in Ops /\ nav[joined.op].kind # "none")

\* navigate(/a), a second navigate(/a#x) that joined it, then an abort: the
\* promise both callers hold has resolved with the abort failure.
C18_Witness ==
    /\ joined.op = 1
    /\ joined.url = Url("/a", "#x")
    /\ nav[1].kind = "nav"
    /\ nav[1].aborted
    /\ nav[1].result = "aborted"

\* The entries of map f that are not operation i's stay as they are.
KeepsOthers(f, g, i) ==
    \A k \in DOMAIN f : f[k] # i => (k \in DOMAIN g /\ g[k] = f[k])

\* C19: the settlement of a navigation removes from pending and from
\* activeRequests no entry but its own; in particular the settlement of a
\* cancelled navigation leaves the entries of a newer navigation to the same
\* URL in place.
C19_SettlementRemovesOwnEntryOnly ==
    [][\A i \in Ops :
         (PendingNav(i) /\ ~PendingNav(i)')
         => /\ KeepsOthers(pending, pending', i)
            /\ KeepsOthers(activeRequests, activeRequests', i)]_vars

\* The operations whose fetch for URL n is neither settled nor aborted.
LiveFetches(n) ==
    {i \in Ops : /\ nav[i].kind \in {"nav", "prefetch"}
                 /\ nav[i].url = n
                 /\ nav[i].fetch \in {"pending", "headers"}
                 /\ ~nav[i].aborted}

\* C20: at any time there is at most one live fetch per normalized URL.
C20_OneLiveFetchPerUrl ==
    \A url \in RawUrls : Cardinality(LiveFetches(normalizeUrl(url))) <= 1

----------------------------------------------------------------------------
(* Claims about prefetch and the history *)

\* Operation i is a prefetch and the pending map holds its promise.
PrefetchEntry(i) ==
    /\ nav[i].kind = "prefetch"
    /\ nav[i].url \in DOMAIN pending
    /\ pending[nav[i].url] = i

\* C21: the entry that prefetch put into the pending map is removed in the
\* end, whether or not its fetch has settled.
C21_PrefetchEntryEvicted ==
    \A i \in Ops : PrefetchEntry(i) ~> ~PrefetchEntry(i)

----------------------------------------------------------------------------
(* Claims about the client notification *)

\* The call has returned, through the loop's end or through the catch.
NotifyOver == notifyPc \in {"done", "caught"}

\* Client i is there and displays the path of the notice's key.
Matching(i) ==
    /\ clients[i].reachable
    /\ clients[i].pathname = PathnameOf(notice.url)

\* C22: when notifyClientsOfUpdate(K, data) has returned, every client that
\* matchAll listed and that displays K's pathname has received the message
\* {FRESH_DATA_AVAILABLE, K, data} exactly once, and no other client has
\* received anything.
C22_NotifyExactlyMatchingClients ==
    (notifyPc = "done" \/ (notifyPc = "caught" /\ cursor > 0))
    => \A i \in 1..Len(clients) :
         inbox[i] = IF Matching(i)
                    THEN << Message(notice.url, notice.data) >>
                    ELSE << >>

\* Delivery to client j has failed: its page is gone, or the turn of the loop
\* for it threw.
DeliveryFailed(j) ==
    /\ j < cursor \/ (j = cursor /\ notifyPc = "caught")
    /\ ~clients[j].reachable \/ ~ValidBase(clients[j].origin)

----------------------------------------------------------------------------
(* Claims about the response metadata *)

\* The lookup of request r finds a row of the current version.
ValidRowAtLookup(r) ==
    /\ reqKey[r] \in DOMAIN store
    /\ store[reqKey[r]].version = getAppVersion

\* C24: every Response of renderWithCache carries x-cache, a version header
\* and, when there is one, the etag: x-cache is HIT exactly when the lookup
\* found a row of the current version, and then the version and etag are the
\* row's; otherwise the response, made after the load and the write, is MISS
\* with the current version and the etag of the loaded payload.
C24_ResponseMetadata ==
    /\ [](\A r \in Reqs :
            (reqResp[r] # NoResp /\ reqResp[r].error = "")
            => /\ reqResp[r].xcache \in {"HIT", "MISS"}
               /\ reqResp[r].versionHeader \in {"x-cache-version", VERSION_HEADER}
               /\ reqResp[r].version = getAppVersion
               /\ reqResp[r].xcache = "MISS" => reqResp[r].etag # NoETag)
    /\ [][\A r \in Reqs :
            (reqPc[r] = "lookup" /\ reqPc'[r] \notin {"lookup", "failed"})
            => IF ValidRowAtLookup(r)
               THEN /\ reqResp'[r].xcache = "HIT"
                    /\ reqResp'[r].version = store[reqKey[r]].version
                    /\ reqResp'[r].etag = store[reqKey[r]].etag
               ELSE /\ reqPc'[r] = "loading"
                    /\ reqResp'[r] = NoResp]_vars
    /\ [][\A r \in Reqs :
            (reqPc[r] \in {"loading", "writing"} /\ reqResp'[r] # NoResp
               /\ reqResp'[r].error = "")
            => /\ reqPc[r] = "writing"
               /\ reqResp'[r].xcache = "MISS"
               /\ reqResp'[r].version = getAppVersion
               /\ reqResp'[r].etag = generateETag(reqData[r], subtle)]_vars

\* One request was answered from a row of the current version, another after
\* a load: the first carries HIT, the second MISS, each with version and etag.
C24_Witness ==
    \E r1, r2 \in Reqs :
        /\ reqResp[r1].xcache = "HIT"
        /\ reqResp[r1].etag # NoETag
        /\ reqResp[r1].versionHeader = "x-cache-version"
        /\ reqResp[r2].xcache = "MISS"
        /\ reqResp[r2].versionHeader = VERSION_HEADER
        /\ reqKey[r1] # reqKey[r2]

----------------------------------------------------------------------------
(* Claims about withDB *)

\* The transaction of call c is over, or its connection was never opened.
DbOver(c) ==
    \/ dbCalls[c].tx \in {"complete", "aborted"}
    \/ dbCalls[c].promise = "rejected"

\* C25: a cache utility call whose transaction has completed, failed or
\* aborted, or whose open failed, has settled and holds no open connection; a
\* call that failed has rejected.
C25_ConnectionAlwaysReleased ==
    \A c \in DbCalls :
        DbOver(c)
        => /\ dbCalls[c].promise \in {"resolved", "rejected"}
           /\ ~dbCalls[c].conn
           /\ dbCalls[c].tx = "aborted" => dbCalls[c].promise = "rejected"

\* C26: a get whose read has failed resolves with absent, as a get that found
\* no row does.
C26_GetFailureIsAbsent ==
    \A c \in DbCalls :
        (dbCalls[c].op = "get" /\ dbCalls[c].conn = FALSE
           /\ dbCalls[c].tx \in {"complete", "aborted"})
        => /\ dbCalls[c].promise = "resolved"
           /\ dbCalls[c].tx = "aborted" => dbCalls[c].result = "absent"

----------------------------------------------------------------------------
(* Claims about the purges *)

\* C27: when clearCacheByVersion(v) completes, every row of version v is
\* gone, every row of another version is as it was, and no row is new.
C27_PurgeByVersionExact ==
    [][Commits("clearByVersion")
       => /\ DOMAIN store' \subseteq DOMAIN store
          /\ \A k \in DOMAIN store :
               IF store[k].version = tx.version
               THEN k \notin DOMAIN store'
               ELSE k \in DOMAIN store' /\ store'[k] = store[k]]_vars

\* clearCacheByVersion of the old version has deleted the row of "/b" and
\* left the row of "/a", which is of the current version.
C27_Witness ==
    /\ lastTx.op = "clearByVersion"
    /\ lastTx.version = OldVersion
    /\ lastTx.removed = {"/b"}
    /\ DOMAIN store = {"/a"}
    /\ store["/a"].version = APP_VERSION

\* C28: when clearOldCache(maxAge) completes, exactly the rows whose timestamp
\* is less than the cutoff, Date.now() - maxAge, are gone; a row whose
\* timestamp is the cutoff or later is as it was.
C28_PurgeOlderThanStrict ==
    [][Commits("clearOld")
       => /\ DOMAIN store' \subseteq DOMAIN store
          /\ \A k \in DOMAIN store :
               IF store[k].timestamp < tx.cutoff
               THEN k \notin DOMAIN store'
               ELSE k \in DOMAIN store' /\ store'[k] = store[k]]_vars

\* The last n elements of a sequence.
LastN(s, n) == IF Len(s) <= n THEN s ELSE SubSeq(s, Len(s) - n + 1, Len(s))

\* C29: the navigation history never holds more than 50 entries, and it is
\* the most recent (at most 50) normalized URLs a navigation was started
\* for, in start order: the oldest entries are the ones dropped.
C29_HistoryIsBoundedRing ==
    /\ Len(navigationHistory) <= 50
    /\ navigationHistory = LastN(started, 50)

\* More than 50 navigations were started, the last one by a call of this
\* behaviour, and the oldest entry has been dropped.
C29_Witness ==
    /\ starts > 0
    /\ Len(started) > maxHistorySize
    /\ Len(navigationHistory) = maxHistorySize
    /\ Head(navigationHistory) # Head(started)

\* Wrapper b ran after wrapper a in the chain, a's middleware set the
\* request id, and b's middleware read it without having set one itself.
ReadsAfterSet(a, b) ==
    /\ a \in adapted /\ b \in adapted
    /\ PosOf(a) < PosOf(b)
    /\ hono[a].requestId # ""
    /\ hono[b].requestId = ""
    /\ hono[b].got # "unread"

\* C30: within one request, a variable set by one interceptor (c.set of a
\* middleware wrapped by useHonoMiddleware) is read with the same value by
\* every later interceptor of the same chain.
C30_VariableSeenByLaterInterceptors ==
    \A a, b \in DOMAIN NoCalls :
        ReadsAfterSet(a, b) => hono[b].got = hono[a].requestId

----------------------------------------------------------------------------
(* Claims about freshness, timeouts and races *)

\* The store write of r's refresh commits in this step.
RefreshCommits(r) == rv[r].pc = "writing" /\ rv'[r].pc = "notifying"

\* Request q, whose store read did not fail, leaves its lookup in this step.
LookupAnswered(q) == reqPc[q] = "lookup" /\ reqPc'[q] \notin {"lookup", "failed"}

\* C31: once the store write of a background refresh for key K has
\* committed, the store holds a valid row with the new data under K, and a
\* request for K whose lookup reads that row (it started after the commit,
\* no other write in between) is served a HIT built from the new data, not
\* from the previous value and not a MISS.
C31_FreshAfterRefreshCommit ==
    /\ [][\A r \in Reqs :
            RefreshCommits(r)
            => /\ reqKey[r] \in DOMAIN store'
               /\ store'[reqKey[r]].data = rv[r].fresh
               /\ isVersionCompatible(store'[reqKey[r]].version)]_vars
    /\ [][\A q \in Reqs :
            (LookupAnswered(q) /\ ValidRowAtLookup(q))
            => /\ reqPc'[q] = "done"
               /\ reqResp'[q].xcache = "HIT"
               /\ reqResp'[q].body = renderFn(store[reqKey[q]].data)]_vars

\* A refresh replaced the seeded payload under a key and told the clients;
\* a later request for the key was served a HIT built from the new payload.
C31_Witness ==
    \E r, q \in Reqs :
        /\ r < q
        /\ reqKey[r] = reqKey[q]
        /\ notifyLog[r] = <<[url |-> reqKey[r], data |-> PayloadBB]>>
        /\ reqResp[r].body = renderFn(PayloadAa)
        /\ reqResp[q].xcache = "HIT"
        /\ reqResp[q].body = renderFn(PayloadBB)

\* The timer of navigation i fires in this step, after i has settled.
LateTimerFires(i) ==
    /\ nav[i].kind = "nav"
    /\ nav[i].result # "pending"
    /\ nav[i].timer /\ ~nav'[i].timer

\* C32: the timer armed by a navigation that has already settled aborts no
\* other navigation, in particular no later one to the same normalized URL.
C32_LateTimerAbortsNothing ==
    [][\A i \in Ops :
        LateTimerFires(i) => \A j \in Ops : nav'[j].aborted = nav[j].aborted]_vars

\* Navigation i has been started and its promise has not settled.
Unsettled(i) == nav[i].kind = "nav" /\ nav[i].result = "pending"

\* C33: every started navigation eventually settles and leaves the pending
\* map: a response that is not fully received within the timeout is aborted.
C33_NavigationEventuallySettles ==
    \A i \in Ops : Unsettled(i) ~> ~Unsettled(i)

\* Lines 141-155 and 206-224: the caller awaits the race and goes on to the
\* ETag, the store write, the notification and the response only with the
\* value the await returned.
GoesOn(result) == result.state = "fulfilled"

\* The loader settles in this step, after the race was decided.
LateLoader ==
    /\ raceResult.state # "pending"
    /\ raceLoader.state = "pending" /\ raceLoader'.state # "pending"

\* The timer fires in this step, after the loader has settled.
LateTimer ==
    /\ raceLoader.state # "pending"
    /\ raceTimer = "armed" /\ raceTimer' = "fired"

\* C34: the first of the loader and the timer to settle decides the race and
\* the loser's later settlement changes nothing: after a timeout a late
\* loader result leaves the timeout error in place (the caller does not go
\* on to the write, the notification or the response), and a timer that
\* fires after the loader has settled leaves the loader's outcome in place
\* (no timeout error).
C34_LoserIsDiscarded ==
    /\ [][LateLoader => /\ raceResult' = Rejected("LoadTimeout")
                        /\ ~GoesOn(raceResult')]_vars
    /\ [][LateTimer => /\ raceResult' = raceLoader
                       /\ raceResult'.error # "LoadTimeout"]_vars
    /\ [][raceResult.state # "pending" => raceResult' = raceResult]_vars

\* The timer fired first and the loader's payload arrived afterwards.
C34_Witness ==
    /\ raceTimer = "fired"
    /\ raceLoader = Fulfilled(PayloadBB)
    /\ raceResult = Rejected("LoadTimeout")

----------------------------------------------------------------------------
(* More claims about the middleware chain *)

\* The Hono middleware of wrapper m, which has called its next, runs the
\* statements after `await next()` to the end in this step.
AfterNextRuns(m) ==
    /\ m \in adapted
    /\ hono[m].nextCalled
    /\ ~hono[m].returned /\ hono'[m].returned

\* Something after m in the chain has been invoked and nothing after m is
\* still running.
DownstreamCompleted(m) ==
    /\ \E i \in 1..Len(trace) : Rank(trace[i]) > Rank(m)
    /\ \A i \in 1..Len(stack) : Rank(stack[i]) <= Rank(m)

\* C35: in a Hono middleware wrapped by useHonoMiddleware the statements
\* after `await next()` execute after the downstream interceptors and the
\* loader have completed, never before them.
C35_AfterNextRunsAfterDownstream ==
    [][\A m \in DOMAIN calls : AfterNextRuns(m) => DownstreamCompleted(m)]_vars

----------------------------------------------------------------------------
(* Claims about the fingerprint *)

\* h * 31 + c wrapped to 32 bits, on the limbs of h.
Times31Plus(h, c) ==
    LET lo31 == h[2] * 31 + c
        hi31 == h[1] * 31 + (lo31 \div Limb)
    IN  << hi31 % Limb, lo31 % Limb >>

RECURSIVE Fold31(_, _, _, _)
\* h = h * 31 + charCode over the characters i..n of prefix in order,
\* starting from h.
Fold31(prefix, i, n, h) ==
    IF i > n THEN h
    ELSE IF i = n THEN Times31Plus(h, prefix[i])
    ELSE LET mid == (i + n) \div 2
             first == Fold31(prefix, i, mid, h)
         IN  IF first # << >> THEN Fold31(prefix, mid + 1, n, first) ELSE h

\* The fingerprint as a function of the first characters and the total
\* length alone: the quoted text abs(h) in base 36, '-', length.
Fingerprint(prefix, length) ==
    << "quote", toString36(Abs32(Fold31(prefix, 1, Len(prefix), <<0, 0>>))), "-",
       Digits(length, 10), "quote" >>

\* The first min(length, 1000) characters of a payload.
First1000(data) == SubSeq(data, 1, Min(Len(data), 1000))

\* C36: the fallback fingerprint of a payload is the function Fingerprint of
\* its first min(length, 1000) characters and its length: h from 0 by
\* h = (h * 31 + charCode) wrapped to 32 bits, rendered as the quoted text
\* abs(h) in base 36, '-', length.  Identical payloads give identical
\* fingerprints (on the cryptographic path as well).
C36_FallbackFingerprint ==
    etagCall # NoETagCall =>
    /\ ~etagCall.subtle =>
          /\ etagCall.etag.kind = "fallback"
          /\ ETagText(etagCall.etag)
               = Fingerprint(First1000(etagCall.data), Len(etagCall.data))
    /\ etagCall.etag = generateETag(etagCall.data, etagCall.subtle)

\* A fallback fingerprint of a payload longer than 1000 characters whose
\* character 1001 differs from the ones before it, with a hash that is
\* negative as a signed 32-bit integer before Math.abs.
C36_Witness ==
    /\ etagCall # NoETagCall
    /\ ~etagCall.subtle
    /\ Len(etagCall.data) > 1000
    /\ etagCall.data[1001] # etagCall.data[1000]
    /\ HashFrom(etagCall.data, 1, 1000, <<0, 0>>)[1] >= 32768
    /\ etagCall.etag.hash # <<0, 0>>

----------------------------------------------------------------------------
(* Claims about purges and concurrent requests *)

\* The store write of request r's cold-miss load commits in this step.
MissCommits(r) == reqPc[r] = "writing" /\ reqPc'[r] = "done"

BothMissed(q, r) ==
    /\ q # r /\ reqKey[q] = reqKey[r]
    /\ reqResp[q].xcache = "MISS" /\ reqResp[r].xcache = "MISS"

\* C38: the cold-miss path is not deduplicated.  A lookup that finds no valid
\* entry starts a load of its own whatever other loads of the key are running;
\* the MISS response of a request is built from its own load; and each store
\* write replaces the entry of its key by the row of the writing request, so
\* the store holds one entry per key, that of the write that committed last.
C38_ColdMissNotDeduplicated ==
    /\ [][\A r \in Reqs :
            (reqPc[r] = "lookup" /\ reqPc'[r] \notin {"lookup", "failed"}
               /\ ~ValidRowAtLookup(r))
            => /\ reqPc'[r] = "loading"
               /\ loaderCalls'[reqKey[r]] = loaderCalls[reqKey[r]] + 1]_vars
    /\ [][\A r \in Reqs :
            MissCommits(r)
            => /\ reqResp'[r].xcache = "MISS"
               /\ reqResp'[r].body = renderFn(reqData[r])
               /\ store'[reqKey[r]].data = reqData[r]
               /\ store'[reqKey[r]].etag = reqResp'[r].etag
               /\ \A k \in DOMAIN store' \ {reqKey[r]} :
                     k \in DOMAIN store /\ store'[k] = store[k]]_vars
    /\ [](\A k \in DOMAIN store : store[k].url = k)

\* Two requests for one key ran their loads at the same time, got different
\* payloads and were both answered MISS; the store holds one of the two.
C38_Witness ==
    \E q, r \in Reqs :
        /\ BothMissed(q, r)
        /\ loaderCalls[reqKey[r]] = 2
        /\ reqResp[q].body = renderFn(PayloadAa)
        /\ reqResp[r].body = renderFn(PayloadBB)
        /\ store[reqKey[r]].data \in {PayloadAa, PayloadBB}

----------------------------------------------------------------------------
(* Claims about the notification protocol, end to end *)

\* Client i displays exactly the URL of the key: same pathname and query.
Displays(i, url) ==
    /\ clients[i].origin # "null"
    /\ clients[i].pathname = PathnameOf(url)
    /\ clients[i].search = SearchOf(url)

\* C39: a client that displays exactly the URL K and is delivered the
\* message FRESH_DATA_AVAILABLE for K accepts it and re-fetches its page,
\* also when K has a non-empty query string.
C39_DeliveredMessageAccepted ==
    \A i \in 1..Len(clients) :
        \A j \in 1..Len(page[i]) :
            Displays(i, inbox[i][j].url) => page[i][j] = "refetch"

====
